---------------------------- MODULE Spec2Model ----------------------------
(***************************************************************************)
(* Figure & Table caption detector of                                      *)
(* try04_20251204/qwen_caption_batch.rawtext.py.                           *)
(*                                                                         *)
(* Python strings are modelled as sequences of one-character strings, so   *)
(* that the regular expressions, find/strip/split and slicing of the       *)
(* source are computed character by character.  Positions are 1-based;     *)
(* the position 0 stands for "not found" / "no match".                     *)
(***************************************************************************)
EXTENDS Integers, Sequences, FiniteSets, TLC

Min(a, b) == IF a <= b THEN a ELSE b

SetMin(S) == CHOOSE x \in S : \A y \in S : x <= y

SetMax(S) == CHOOSE x \in S : \A y \in S : x >= y

Range(f) == {f[k] : k \in DOMAIN f}

IndexOf(seq, c) == CHOOSE k \in DOMAIN seq : seq[k] = c

\* the least element of a set of positions, 0 for the empty set
MinOrZero(S) == IF S = {} THEN 0 ELSE SetMin(S)

(***************************************************************************)
(* Character classes of Python's str / re on the characters the model      *)
(* uses.                                                                   *)
(***************************************************************************)
UpperLetters ==
    << "A", "B", "C", "D", "E", "F", "G", "H", "I", "J", "K", "L", "M",
       "N", "O", "P", "Q", "R", "S", "T", "U", "V", "W", "X", "Y", "Z" >>

LowerLetters ==
    << "a", "b", "c", "d", "e", "f", "g", "h", "i", "j", "k", "l", "m",
       "n", "o", "p", "q", "r", "s", "t", "u", "v", "w", "x", "y", "z" >>

DigitChars == << "0", "1", "2", "3", "4", "5", "6", "7", "8", "9" >>

\* \s and str.isspace()
Whitespace == {" ", "\n", "\t", "\r"}

\* the line boundaries str.splitlines() breaks at
LineBreaks == {"\n", "\r"}

\* \d
Digits == Range(DigitChars)

\* [A-Z_]
UpperUnderscore == Range(UpperLetters) \cup {"_"}

\* [a-zA-Z]
Letters == Range(UpperLetters) \cup Range(LowerLetters)

\* \w
WordChars == Letters \cup Digits \cup {"_"}

\* str.lower() on one character
lower(c) ==
    IF c \in Range(UpperLetters) THEN LowerLetters[IndexOf(UpperLetters, c)]
    ELSE c

\* str.upper() on a string
upper(s) ==
    [k \in DOMAIN s |->
        IF s[k] \in Range(LowerLetters)
        THEN UpperLetters[IndexOf(LowerLetters, s[k])]
        ELSE s[k]]

(***************************************************************************)
(* str methods.                                                            *)
(***************************************************************************)
\* s[p:] of Python, p 1-based
From(s, p) == SubSeq(s, p, Len(s))

\* str.strip()
strip(s) ==
    LET K == {k \in 1..Len(s) : s[k] \notin Whitespace}
    IN  IF K = {} THEN << >> ELSE SubSeq(s, SetMin(K), SetMax(K))

\* s occurs in text at position p
StartsAt(s, p, lit) ==
    /\ p >= 1
    /\ p + Len(lit) - 1 <= Len(s)
    /\ \A k \in 1..Len(lit) : s[p + k - 1] = lit[k]

\* the same, ignoring case (re.IGNORECASE)
StartsAtI(s, p, lit) ==
    /\ p >= 1
    /\ p + Len(lit) - 1 <= Len(s)
    /\ \A k \in 1..Len(lit) : lower(s[p + k - 1]) = lower(lit[k])

\* str.find(): position of the first occurrence, 0 when there is none
\* (Python: 0-based index, -1 when there is none)
find(s, lit) == MinOrZero({p \in 1..Len(s) : StartsAt(s, p, lit)})

\* sep.join(xs)
RECURSIVE join(_, _)
join(sep, xs) ==
    IF xs = << >> THEN << >>
    ELSE IF Len(xs) = 1 THEN xs[1]
    ELSE xs[1] \o sep \o join(sep, Tail(xs))

\* str.split() without arguments: the maximal runs of non-whitespace
RECURSIVE split(_)
split(s) ==
    LET N == {k \in 1..Len(s) : s[k] \notin Whitespace}
    IN  IF N = {} THEN << >>
        ELSE LET b == SetMin(N)
                 W == {k \in b..Len(s) : s[k] \in Whitespace}
                 e == IF W = {} THEN Len(s) + 1 ELSE SetMin(W)
             IN  << SubSeq(s, b, e - 1) >> \o split(From(s, e))

\* str.splitlines(): break at every line boundary ("\r\n" is one boundary),
\* no empty last line
RECURSIVE splitlines(_)
splitlines(s) ==
    IF s = << >> THEN << >>
    ELSE LET K == {k \in 1..Len(s) : s[k] \in LineBreaks}
         IN  IF K = {} THEN << s >>
             ELSE LET b == SetMin(K)
                      nxt == IF s[b] = "\r" /\ b < Len(s) /\ s[b + 1] = "\n"
                             THEN b + 2 ELSE b + 1
                  IN  << SubSeq(s, 1, b - 1) >> \o splitlines(From(s, nxt))

\* int() of a string matched by -?\d+
RECURSIVE DecVal(_)
DecVal(ds) ==
    IF ds = << >> THEN 0
    ELSE DecVal(SubSeq(ds, 1, Len(ds) - 1)) * 10
         + (IndexOf(DigitChars, ds[Len(ds)]) - 1)

py_int(t) == IF t[1] = "-" THEN 0 - DecVal(Tail(t)) ELSE DecVal(t)

(***************************************************************************)
(* Regular-expression pieces.  Each takes the position p where matching    *)
(* continues (0: the match has already failed) and gives the position      *)
(* after the piece, or 0.  The greedy quantifiers take the maximal run:    *)
(* in every pattern of the source the piece after a quantifier cannot      *)
(* start with a character of the quantified class, so giving characters    *)
(* back never makes a failed match succeed.                                *)
(***************************************************************************)
reLit(s, p, lit) ==
    IF p # 0 /\ StartsAt(s, p, lit) THEN p + Len(lit) ELSE 0

reLitI(s, p, lit) ==
    IF p # 0 /\ StartsAtI(s, p, lit) THEN p + Len(lit) ELSE 0

\* class*
reStar(s, p, class) ==
    IF p = 0 THEN 0
    ELSE LET K == {k \in p..Len(s) : s[k] \notin class}
         IN  IF K = {} THEN Len(s) + 1 ELSE SetMin(K)

\* \s*lit
reWsLit(s, p, lit) == reLit(s, reStar(s, p, Whitespace), lit)

\* class+
rePlus(s, p, class) ==
    LET q == reStar(s, p, class) IN IF q = p THEN 0 ELSE q

\* lit?
reOpt(s, p, lit) ==
    IF p = 0 THEN 0
    ELSE IF StartsAt(s, p, lit) THEN p + Len(lit) ELSE p

\* class?
reOptClass(s, p, class) ==
    IF p = 0 THEN 0
    ELSE IF p <= Len(s) /\ s[p] \in class THEN p + 1 ELSE p

\* \b at position p: exactly one of s[p-1], s[p] is a word character
WordBoundary(s, p) ==
    LET before == p > 1 /\ p - 1 <= Len(s) /\ s[p - 1] \in WordChars
        after  == p >= 1 /\ p <= Len(s) /\ s[p] \in WordChars
    IN  before # after

(***************************************************************************)
(* String literals of the source.                                          *)
(***************************************************************************)
TABLE_CAPTION == <<"T", "A", "B", "L", "E", "_", "C", "A", "P", "T", "I", "O", "N">>

NOT_CAPTION == <<"N", "O", "T", "_", "C", "A", "P", "T", "I", "O", "N">>

PARSE_ERROR == <<"P", "A", "R", "S", "E", "_", "E", "R", "R", "O", "R">>

ERROR == <<"E", "R", "R", "O", "R">>

FIGURE == "FIGURE"

TABLE == "TABLE"

RULE_FIG_PATTERN == "RULE_FIG_PATTERN"

LLM_TABLE == "LLM_TABLE"

\* Optional values: Python's None, and a value that is present
None == [some |-> FALSE]

Some(v) == [some |-> TRUE, val |-> v]

kwLABEL == <<"L", "A", "B", "E", "L">>

kwLABEL_EQ == <<"L", "A", "B", "E", "L", "=">>

kwEND_INDEX == <<"E", "N", "D", "_", "I", "N", "D", "E", "X">>

kwREASON == <<"R", "E", "A", "S", "O", "N">>

rawPrefix == <<"r", "a", "w", ":", " ">>

errPrefix == <<"Q", "w", "e", "n", " ", "c", "a", "l", "l", " ", "e", "r", "r", "o", "r", ":", " ">>

\* text_one[:200]
RawReasonLen == 200

(***************************************************************************)
(* parse_table_response                                                    *)
(***************************************************************************)
\* The pattern
\*   LABEL\s*=\s*([A-Z_]+)\s*;\s*END_INDEX\s*=\s*(-?\d+)\s*;\s*REASON\s*=\s*(.+)
\* tried at position p of s, piece by piece.
\* LABEL\s*=\s*  : the start of group 1
G1Start(s, p) == reStar(s, reWsLit(s, reLit(s, p, kwLABEL), << "=" >>), Whitespace)

\* ([A-Z_]+)  : the position after group 1
G1End(s, g1s) == rePlus(s, g1s, UpperUnderscore)

\* \s*;\s*END_INDEX\s*=\s*  : the start of group 2
G2Start(s, g1e) ==
    reStar(s, reWsLit(s, reWsLit(s, reWsLit(s, g1e, << ";" >>), kwEND_INDEX),
                      << "=" >>), Whitespace)

\* (-?\d+)  : the position after group 2
G2End(s, g2s) == rePlus(s, reOpt(s, g2s, << "-" >>), Digits)

\* \s*;\s*REASON\s*=  : the position after the last "="
ReasonEq(s, g2e) ==
    reWsLit(s, reWsLit(s, reWsLit(s, g2e, << ";" >>), kwREASON), << "=" >>)

\* \s*(.+)  : the start of group 3, w being the position after the
\* whitespace that follows "=".  s holds no line break (it is text_one), so
\* (.+) runs to the end of s; when only whitespace follows "=", \s* gives
\* its last character back to (.+).
G3Start(s, a8, w) ==
    IF a8 = 0 THEN 0
    ELSE IF w <= Len(s) THEN w
    ELSE IF w > a8 THEN w - 1
    ELSE 0

\* the match object
MatchGroups(s, g1s, g1e, g2s, g2e, g3s) ==
    IF g3s = 0
    THEN [matched |-> FALSE]
    ELSE [matched |-> TRUE,
          g1 |-> SubSeq(s, g1s, g1e - 1),
          g2 |-> SubSeq(s, g2s, g2e - 1),
          g3 |-> From(s, g3s)]

MatchFromG3(s, g1s, g1e, g2s, g2e, a8) ==
    MatchGroups(s, g1s, g1e, g2s, g2e,
                G3Start(s, a8, reStar(s, a8, Whitespace)))

MatchFromG2End(s, g1s, g1e, g2s, g2e) ==
    MatchFromG3(s, g1s, g1e, g2s, g2e, ReasonEq(s, g2e))

MatchFromG2(s, g1s, g1e, g2s) ==
    MatchFromG2End(s, g1s, g1e, g2s, G2End(s, g2s))

MatchFromG1End(s, g1s, g1e) == MatchFromG2(s, g1s, g1e, G2Start(s, g1e))

MatchFromG1(s, g1s) == MatchFromG1End(s, g1s, G1End(s, g1s))

TableRespMatchAt(s, p) == MatchFromG1(s, G1Start(s, p))

\* re.search: the match at the leftmost position where the pattern matches
TableRespMatchOrNone(s, p) ==
    IF p = 0 THEN [matched |-> FALSE] ELSE TableRespMatchAt(s, p)

TableRespSearch(s) ==
    TableRespMatchOrNone(
        s, MinOrZero({p \in 1..Len(s) : TableRespMatchAt(s, p).matched}))

\* text[idx:] from the first "LABEL=", the whole text when there is none
FromIdx(text, idx) == IF idx >= 1 THEN From(text, idx) ELSE text

FromLabel(text) == FromIdx(text, find(text, kwLABEL_EQ))

\* " ".join(text.splitlines()), then " ".join(text_one.split())
OneLine(text) ==
    join(<< " " >>, split(join(<< " " >>, splitlines(text))))

\* f"raw: {text_one[:200]}"
RawReason(text_one) ==
    rawPrefix \o SubSeq(text_one, 1, Min(RawReasonLen, Len(text_one)))

\* faulty variant: the label is returned unchecked
LabelSanity_none(label) == label

\* sanity check of the label
LabelSanity(label) ==
    IF label \notin {TABLE_CAPTION, NOT_CAPTION} THEN PARSE_ERROR ELSE label

\* faulty variant: the end index is returned unchecked
EndSanity_none(end_idx) == end_idx

\* sanity check of the end index
EndSanity(end_idx) ==
    IF end_idx \notin {-1, 0, 1, 2} THEN -1 ELSE end_idx

\* the returned dict, m being the match object of text_one
ParseResult(text_one, m) ==
    IF ~m.matched
    THEN [label     |-> PARSE_ERROR,
          end_index |-> -1,
          reason    |-> RawReason(text_one)]
    ELSE [label     |-> LabelSanity(upper(m.g1)),
          end_index |-> EndSanity(py_int(m.g2)),
          reason    |-> strip(m.g3)]

ParseOneLine(text_one) == ParseResult(text_one, TableRespSearch(text_one))

parse_table_response(text) == ParseOneLine(OneLine(FromLabel(text)))

(***************************************************************************)
(* call_qwen_table.  The outcome of ollama.chat is the input of the        *)
(* model: either a reply with a content string, or an exception with its   *)
(* message.  The prompt does not influence the result record.              *)
(***************************************************************************)
Replied(content) == [raised |-> FALSE, text |-> content]

Raised(msg) == [raised |-> TRUE, text |-> msg]

call_qwen_table(outcome) ==
    IF outcome.raised
    THEN [label     |-> ERROR,
          end_index |-> -1,
          reason    |-> errPrefix \o outcome.text]
    ELSE parse_table_response(strip(outcome.text))

(***************************************************************************)
(* Python lists: index k (0-based) of a list held as a sequence.           *)
(***************************************************************************)
At(xs, k) == xs[k + 1]

\* xs[a:b+1]; a slice ends at the end of the list at the latest
Slice(xs, a, b) == SubSeq(xs, a + 1, Min(b + 1, Len(xs)))

\* [False] * n
AllFalse(n) == [k \in 0..(n - 1) |-> FALSE]

(***************************************************************************)
(* The patterns of the detectors.                                          *)
(***************************************************************************)
litFig == <<"F", "i", "g", ".">>

litTable == <<"T", "a", "b", "l", "e">>

\* FIG_PATTERN = \bFig\.\s*\d+ (IGNORECASE) matches at position p
FigPatternAt(s, p) ==
    /\ WordBoundary(s, p)
    /\ rePlus(s, reStar(s, reLitI(s, p, litFig), Whitespace), Digits) # 0

\* FIG_PATTERN.search(s): m.start() (1-based), 0 for no match
FIG_PATTERN_search(s) == MinOrZero({p \in 1..Len(s) : FigPatternAt(s, p)})

\* the group ([0-9]+[a-zA-Z]?) starting at gs and ending before ge
NumGroup(s, gs, ge) ==
    IF ge = 0 THEN None ELSE Some(SubSeq(s, gs, ge - 1))

NumGroupFrom(s, gs) ==
    NumGroup(s, gs, reOptClass(s, rePlus(s, gs, Digits), Letters))

\* group(1) of Fig\.\s*([0-9]+[a-zA-Z]?) (case-sensitive) tried at p
FigNumAt(s, p) == NumGroupFrom(s, reStar(s, reLit(s, p, litFig), Whitespace))

\* m_num of re.search over tail, p being the leftmost matching position
FigNumSearch(tail, p) == IF p = 0 THEN None ELSE FigNumAt(tail, p)

FigNoOfTail(tail) ==
    FigNumSearch(tail,
                 MinOrZero({p \in 1..Len(tail) : FigNumAt(tail, p).some}))

\* fig_no: the number after the first "Fig." of tail = s[m.start():]
FigNo(s) == FigNoOfTail(From(s, FIG_PATTERN_search(s)))

\* TABLE_KEYWORD_PAT = \bTable[s]?\b (IGNORECASE) matches at position p;
\* q is the position after "Table", r the position after the optional "s"
TableKeywordEnds(s, q, r) ==
    /\ q # 0
    /\ \/ r # q /\ WordBoundary(s, r)
       \/ WordBoundary(s, q)

TableKeywordFrom(s, q) ==
    TableKeywordEnds(s, q, reOptClass(s, q, {"s", "S"}))

TableKeywordAt(s, p) ==
    WordBoundary(s, p) /\ TableKeywordFrom(s, reLitI(s, p, litTable))

\* TABLE_KEYWORD_PAT.search(s) finds a match
TABLE_KEYWORD_PAT_search(s) == \E p \in 1..Len(s) : TableKeywordAt(s, p)

\* group(1) of \bTable\s*([0-9]+[a-zA-Z]?) (IGNORECASE) tried at p
TableNumAt(s, p) ==
    IF WordBoundary(s, p)
    THEN NumGroupFrom(s, reStar(s, reLitI(s, p, litTable), Whitespace))
    ELSE None

\* m of re.search over text_window, p being the leftmost matching position
TableNumSearch(text_window, p) ==
    IF p = 0 THEN None ELSE TableNumAt(text_window, p)

\* table_id of the accepted window text
TableId(text_window) ==
    TableNumSearch(
        text_window,
        MinOrZero({p \in 1..Len(text_window) :
                      TableNumAt(text_window, p).some}))

(***************************************************************************)
(* Steps of the detectors that the scan control depends on.                *)
(***************************************************************************)
\* faulty variant: a figure caption takes one following sentence only
FigEndIdx_one(i, n) == Min(i + 1, n - 1)

\* end_idx = min(i + 2, len(sentences) - 1)
FigEndIdx(i, n) == Min(i + 2, n - 1)

\* faulty variant: the end index is not clipped to the last sentence
TabEndIdx_noclip(i, end_in_win, n) == i + end_in_win

\* end_idx = min(i + end_in_win, n - 1)
TabEndIdx(i, end_in_win, n) == Min(i + end_in_win, n - 1)

\* faulty variant: no sentence is marked
MarkUsed_none(used, start_idx, end_idx) == used

\* for k in range(start_idx, end_idx + 1): used[k] = True
MarkUsed(used, start_idx, end_idx) ==
    [k \in DOMAIN used |->
        IF start_idx <= k /\ k <= end_idx THEN TRUE ELSE used[k]]

\* faulty variant: the flags of the call before are taken over
FigUsedInit_keep(n, earlier_used) ==
    [k \in 0..(n - 1) |-> k \in DOMAIN earlier_used /\ earlier_used[k]]

\* used = [False] * len(sentences) of detect_figure_captions: a new list
\* at every call, whatever the list of the call before held
FigUsedInit(n, earlier_used) == AllFalse(n)

\* used = [False] * len(sentences) of detect_table_captions: the list of
\* detect_figure_captions is a local of that function and is not passed on
TabUsedInit(n, figure_used) == AllFalse(n)

\* faulty variant: every label but NOT_CAPTION counts as a caption
IsCaption_notneg(label, end_in_win) == label # NOT_CAPTION

\* faulty variant: the label alone decides
IsCaption_label(label, end_in_win) == label = TABLE_CAPTION

\* if label == "TABLE_CAPTION" and end_in_win >= 0
IsCaption(label, end_in_win) == label = TABLE_CAPTION /\ end_in_win >= 0

\* faulty variant: the scan resumes at the last sentence of the caption
AcceptNextI_stay(end_idx) == end_idx

\* faulty variant: the scan resumes one sentence after the one that follows
\* the caption
AcceptNextI_skip(end_idx) == end_idx + 2

\* i = end_idx + 1
AcceptNextI(end_idx) == end_idx + 1

\* faulty variant: a rejected candidate is not left
RejectNextI_stay(i) == i

\* faulty variant: after a rejected candidate the scan starts again
RejectNextI_restart(i) == 0

\* faulty variant: a rejected candidate skips the sentence after it
RejectNextI_skip(i) == i + 2

\* i += 1 of the else branch
RejectNextI(i) == i + 1

\* faulty variant: where the document ends the window is filled up with the
\* candidate sentence instead of the empty string
Window_repeat(sents, i) ==
    LET n == Len(sents)
    IN  << At(sents, i),
           IF i + 1 < n THEN At(sents, i + 1) ELSE At(sents, i),
           IF i + 2 < n THEN At(sents, i + 2) ELSE At(sents, i) >>

\* s0, s1, s2 of the candidate at i
Window(sents, i) ==
    LET n == Len(sents)
    IN  << At(sents, i),
           IF i + 1 < n THEN At(sents, i + 1) ELSE << >>,
           IF i + 2 < n THEN At(sents, i + 2) ELSE << >> >>

\* faulty variant: the caption is the start sentence alone
CaptionText_start(sents, start_idx, end_idx) == At(sents, start_idx)

\* caption_text = " ".join(sentences[start_idx:end_idx + 1])
CaptionText(sents, start_idx, end_idx) ==
    join(<< " " >>, Slice(sents, start_idx, end_idx))

\* faulty variant: a FIGURE record carries no sentences
FigWindow_empty(sents, start_idx, end_idx) == << >>

\* "raw_window": sentences[start_idx:end_idx + 1] of a FIGURE record
FigWindow(sents, start_idx, end_idx) == Slice(sents, start_idx, end_idx)

\* the dict appended by detect_figure_captions for a match at i
FigureRecord(sents, i) ==
    LET start_idx == i
        end_idx   == FigEndIdx(i, Len(sents))
    IN  [type                |-> FIGURE,
         id                  |-> FigNo(At(sents, i)),
         start_sent_idx      |-> start_idx,
         end_sent_idx        |-> end_idx,
         caption_text        |-> CaptionText(sents, start_idx, end_idx),
         source              |-> RULE_FIG_PATTERN,
         raw_window          |-> FigWindow(sents, start_idx, end_idx),
         table_label         |-> None,
         table_end_in_window |-> None,
         table_reason        |-> None]

\* the dict appended by detect_table_captions when the candidate is accepted
AcceptedRecord(sents, i, q) ==
    LET start_idx   == i
        end_idx     == TabEndIdx(i, q.end_index, Len(sents))
        text_window == join(<< " " >>, Slice(sents, start_idx, end_idx))
    IN  [type                |-> TABLE,
         id                  |-> TableId(text_window),
         start_sent_idx      |-> start_idx,
         end_sent_idx        |-> end_idx,
         caption_text        |-> CaptionText(sents, start_idx, end_idx),
         source              |-> LLM_TABLE,
         raw_window          |-> Window(sents, i),
         table_label         |-> Some(q.label),
         table_end_in_window |-> Some(q.end_index),
         table_reason        |-> Some(q.reason)]

\* the dict appended by detect_table_captions when it is not
RejectedRecord(sents, i, q) ==
    [type                |-> TABLE,
     id                  |-> None,
     start_sent_idx      |-> i,
     end_sent_idx        |-> i,
     caption_text        |-> At(sents, i),
     source              |-> LLM_TABLE,
     raw_window          |-> Window(sents, i),
     table_label         |-> Some(q.label),
     table_end_in_window |-> Some(q.end_index),
     table_reason        |-> Some(q.reason)]

\* faulty variant: the detectors are called in the other order
Pipeline_swapped == << "tab", "fig" >>

\* fig_caps = detect_figure_captions(sentences)
\* tab_caps = detect_table_captions(sentences)
Pipeline == << "fig", "tab" >>

\* os.path.basename(path) of the document
(***************************************************************************)
(* Inputs: the sentence lists a document can split into, and the outcomes  *)
(* of one oracle call.                                                     *)
(***************************************************************************)
MaxSents == 3

sPlain == <<"O", "k", ".">>

sFig == <<"F", "i", "g", ".", " ", "1", " ", "x", ".">>

sTab == <<"T", "a", "b", "l", "e", " ", "1", " ", "x", ".">>

sBoth == <<"S", "e", "e", " ", "f", "i", "g", ".", " ", "2", " ", "i", "n", " ", "T", "a", "b", "l", "e", "s", ".">>

SentencePool == {sPlain, sFig, sTab, sBoth}
\* a longer document: two figure captions and two table candidates
LongDocs == {<< sFig, sPlain, sTab, sFig, sTab >>}

Docs == UNION {[1..n -> SentencePool] : n \in 0..MaxSents} \cup LongDocs

\* decimal text of an integer
RECURSIVE NatText(_)
NatText(k) ==
    IF k < 10 THEN << DigitChars[k + 1] >>
    ELSE NatText(k \div 10) \o << DigitChars[(k % 10) + 1] >>

IntText(k) == IF k < 0 THEN << "-" >> \o NatText(0 - k) ELSE NatText(k)

\* a reply in the format the prompt asks for
ReplyLine(label, e, reason) ==
    kwLABEL_EQ \o label \o << ";", " " >> \o kwEND_INDEX \o << "=" >>
    \o IntText(e) \o << ";", " " >> \o kwREASON \o << "=" >> \o reason

MaxReplyEnd == 3

txtOk == <<"o", "k">>

txtMaybe == <<"M", "A", "Y", "B", "E">>

txtTimeout == <<"t", "i", "m", "e", "o", "u", "t">>

OracleOutcomes ==
    {Replied(ReplyLine(TABLE_CAPTION, e, txtOk)) : e \in -1..MaxReplyEnd}
    \cup {Replied(ReplyLine(NOT_CAPTION, -1, txtOk)),
          Replied(ReplyLine(NOT_CAPTION, 1, txtOk)),
          Replied(ReplyLine(txtMaybe, 1, txtOk)),
          Replied(<< >>),
          Raised(txtTimeout)}

\* the dicts call_qwen_table returns on these outcomes
QResults == {call_qwen_table(outcome) : outcome \in OracleOutcomes}

(***************************************************************************)
(* Text extraction and sentence splitting.                                 *)
(***************************************************************************)
\* s.replace(old, new), old non-empty: the occurrences left to right,
\* without overlap
RECURSIVE replace(_, _, _)
replace(s, old, new) ==
    IF s = << >> THEN << >>
    ELSE IF StartsAt(s, 1, old)
         THEN new \o replace(From(s, Len(old) + 1), old, new)
         ELSE << s[1] >> \o replace(Tail(s), old, new)

FIG_TOKEN == <<"F", "I", "G", "S", "P", "E", "C", "I", "A", "L", "T", "O", "K", "E", "N">>

FIGS_TOKEN == <<"F", "I", "G", "S", "S", "P", "E", "C", "I", "A", "L", "T", "O", "K", "E", "N">>

litFigDot == <<"F", "i", "g", ".">>

litFigsDot == <<"F", "i", "g", "s", ".">>

\* [.!?]
SentenceEnd == {".", "!", "?"}

\* the positions where (?<=[.!?])\s+ matches
SentSplitStarts(s) ==
    {p \in 2..Len(s) : s[p] \in Whitespace /\ s[p - 1] \in SentenceEnd}

\* _SENT_SPLIT_RE.split(s): the pieces between the matches
RECURSIVE SentSplit(_)
SentSplitAt(s, p) ==
    IF p = 0 THEN << s >>
    ELSE << SubSeq(s, 1, p - 1) >>
         \o SentSplit(From(s, reStar(s, p, Whitespace)))

SentSplit(s) == SentSplitAt(s, MinOrZero(SentSplitStarts(s)))

\* faulty variant: every piece is kept
StripNonEmpty_keep(xs) == [k \in 1..Len(xs) |-> strip(xs[k])]

\* [s.strip() for s in sents if s and len(s.strip()) > 0]
RECURSIVE StripNonEmpty(_)
StripNonEmpty(xs) ==
    IF xs = << >> THEN << >>
    ELSE IF strip(xs[1]) = << >> THEN StripNonEmpty(Tail(xs))
         ELSE << strip(xs[1]) >> \o StripNonEmpty(Tail(xs))

\* faulty variant: the text is split as it is
Protect_none(text) == text

\* text.replace("Fig.", FIG_TOKEN).replace("Figs.", FIGS_TOKEN)
Protect(text) == replace(replace(text, litFigDot, FIG_TOKEN), litFigsDot, FIGS_TOKEN)

Restore(s) == strip(replace(replace(s, FIG_TOKEN, litFigDot), FIGS_TOKEN, litFigsDot))

RestoreAll(sents) == [k \in 1..Len(sents) |-> Restore(sents[k])]

split_sentences(text) == RestoreAll(StripNonEmpty(SentSplit(Protect(text))))

\* " ".join(text.split())
Normalise(text) == join(<< " " >>, split(text))

\* A document file: readable says whether etree.parse succeeds; raw, body
\* and other are the text nodes under rawtext elements, under body elements
\* and elsewhere.
XmlDoc(readable, raw, body, other) ==
    [readable |-> readable, raw |-> raw, body |-> body, other |-> other]

\* root.xpath("//text()")
AllTextNodes(doc) == doc.raw \o doc.body \o doc.other

\* extract_rawtext_from_xml of qwen_caption_batch.rawtext.py
extract_rawtext_from_xml(doc) ==
    IF ~doc.readable THEN None
    ELSE IF doc.raw = << >> THEN None
    ELSE Some(strip(Normalise(replace(join(<< " " >>, doc.raw),
                                      << "\r" >>, << " " >>))))
\* extract_text_from_xml of extract_caption_rawtext.py: the first of the
\* three node lists that has a node, whatever its text
extract_text_from_xml(doc) ==
    IF ~doc.readable THEN None
    ELSE IF doc.raw # << >> THEN Some(Normalise(join(<< " " >>, doc.raw)))
    ELSE IF doc.body # << >> THEN Some(Normalise(join(<< " " >>, doc.body)))
    ELSE IF AllTextNodes(doc) # << >>
    THEN Some(Normalise(join(<< " " >>, AllTextNodes(doc))))
    ELSE None

\* bool(x) of an Optional[str] or a list
Truthy(opt) == opt.some /\ opt.val # << >>

(***************************************************************************)
(* File names.                                                             *)
(***************************************************************************)
\* the characters of the file names, in code point order
CodeOrder ==
    << ".", "/" >> \o DigitChars \o UpperLetters \o << "_" >> \o LowerLetters

Ord(c) == IndexOf(CodeOrder, c)

\* a < b of two str
RECURSIVE StrLess(_, _)
StrLess(a, b) ==
    IF b = << >> THEN FALSE
    ELSE IF a = << >> THEN TRUE
    ELSE IF a[1] = b[1] THEN StrLess(Tail(a), Tail(b))
    ELSE Ord(a[1]) < Ord(b[1])

\* list.sort() of a list of different strings
RECURSIVE Sorted(_)
Sorted(S) ==
    IF S = {} THEN << >>
    ELSE LET least == CHOOSE a \in S : \A b \in S \ {a} : StrLess(a, b)
         IN  << least >> \o Sorted(S \ {least})

\* str.lower()
lowerStr(s) == [k \in DOMAIN s |-> lower(s[k])]

\* s.endswith(suffix)
endswith(s, suffix) ==
    Len(s) >= Len(suffix) /\ StartsAt(s, Len(s) - Len(suffix) + 1, suffix)

extXml == << ".", "x", "m", "l" >>

extJson == << ".", "j", "s", "o", "n" >>

\* os.path.join(d, f) of a directory without trailing slash and a name
path_join(d, f) == d \o << "/" >> \o f

\* os.path.basename(path)
basename(p) ==
    LET K == {k \in 1..Len(p) : p[k] = "/"}
    IN  IF K = {} THEN p ELSE From(p, SetMax(K) + 1)

(***************************************************************************)
(* The files of a run.                                                     *)
(***************************************************************************)
DEFAULT_XML_DIR == <<".", "/", "x", "m", "l", "s">>

DEFAULT_OUT_JSON_DIR == <<".", "/", "o", "u", "t", "p", "u", "t", "_", "c", "a", "p", "t", "i", "o", "n", "s">>

nameA == <<"a", ".", "x", "m", "l">>

nameB == <<"b", ".", "x", "m", "l">>

nameC == <<"c", ".", "x", "m", "l">>

nameD == <<"d", ".", "x", "m", "l">>

nameE == <<"e", ".", "X", "M", "L">>

nameW == <<"w", ".", "x", "m", "l">>

nameN == <<"n", ".", "t", "x", "t">>

nameK1 == <<"k", ".", "x", "m", "l", ".", "x", "m", "l">>

nameK2 == <<"k", ".", "j", "s", "o", "n", ".", "x", "m", "l">>

\* the names os.listdir(xml_dir) can hold
DirNames == {nameA, nameB, nameC, nameD, nameE, nameW, nameN, nameK1, nameK2}

\* what each file holds: a.xml and c.xml give the same sentences from
\* different text nodes, b.xml is not well-formed, d.xml has a blank
\* rawtext, w.xml has text in its body only, e.XML has no caption sentence
FileContent(name) ==
    IF name = nameA
    THEN XmlDoc(TRUE, << sFig, <<" ", "T", "a", "b", "l", "e", " ", "1", " ", "x", ".", "\r", "\n">> >>, << >>, << >>)
    ELSE IF name = nameC
    THEN XmlDoc(TRUE, << sFig \o << " " >> \o sTab >>, << sPlain >>, << >>)
    ELSE IF name = nameW
    THEN XmlDoc(TRUE, << >>, << <<"F", "i", "g", ".", " ", "5", " ", "b", ".">> >>, << sPlain >>)
    ELSE IF name = nameE
    THEN XmlDoc(TRUE, << sPlain >>, << >>, << >>)
    ELSE IF name = nameD
    THEN XmlDoc(TRUE, << << " " >> >>, << sFig >>, << >>)
    ELSE IF name = nameK1
    THEN XmlDoc(TRUE, << <<"F", "i", "g", ".", " ", "2", " ", "y", ".">> >>, << >>, << >>)
    ELSE IF name = nameK2
    THEN XmlDoc(TRUE, << <<"F", "i", "g", ".", " ", "3", " ", "z", ".">> >>, << >>, << >>)
    ELSE XmlDoc(FALSE, << >>, << >>, << >>)

\* the file at a path of xml_dir
FileAt(p) == FileContent(basename(p))

\* rawtext and sentences of process_single_xml for each path, computed once
RawtextOf ==
    [f \in DirNames |-> extract_rawtext_from_xml(FileContent(f))]

SentencesOf ==
    [f \in DirNames |->
        IF Truthy(RawtextOf[f]) THEN split_sentences(RawtextOf[f].val)
        ELSE << >>]

\* xml_files of run_batch for a listing of xml_dir
XmlFilesOf(listing) ==
    Sorted({path_join(DEFAULT_XML_DIR, f) :
               f \in {g \in listing : endswith(lowerStr(g), extXml)}})

(***************************************************************************)
(* State.                                                                  *)
(***************************************************************************)
VARIABLES
    sentences,    \* split_sentences(rawtext) of the document
    pc,           \* "begin", "fig", "tab", "await", "collect", "done"
    stage,        \* number of detector calls of process_single_xml begun
    used_fig,     \* used of detect_figure_captions, index -> BOOLEAN
    i_fig,        \* i of detect_figure_captions
    fig_caps,     \* results of detect_figure_captions
    used_tab,     \* used of detect_table_captions
    i_tab,        \* i of detect_table_captions
    tab_caps,     \* results of detect_table_captions
    q_calls,      \* the calls of call_qwen_table so far: [idx, window]
    q_res,        \* q_res of the last call that returned
    all_records,  \* all_records of process_single_xml
    json_out,     \* the per-XML JSON file written, if any
    resp,         \* argument of parse_table_response
    parsed,       \* its return value
    path,         \* path of process_single_xml
    out_dir,      \* the files of out_json_dir: path -> content
    xml_files,    \* xml_files of run_batch, sorted
    f_idx,        \* number of files the loop of run_batch is done with
    all_rows,     \* all_rows of run_batch
    out_csv,      \* the rows written to out_csv, if it was written
    doc_log,      \* per call of process_single_xml: what it was given
                  \* and what the detectors returned
    s_text,         \* text of split_sentences
    s_tmp,          \* tmp of split_sentences
    s_sents         \* sents of split_sentences

vars == << sentences, pc, stage, used_fig, i_fig, fig_caps, used_tab, i_tab,
           tab_caps, q_calls, q_res, all_records, json_out, resp, parsed,
           path, out_dir, xml_files, f_idx, all_rows, out_csv, doc_log,
           s_text, s_tmp, s_sents >>

figVars == << used_fig, i_fig, fig_caps >>

tabVars == << used_tab, i_tab, tab_caps >>

parseVars == << resp, parsed >>

splitVars == << s_text, s_tmp, s_sents >>

batchVars == << xml_files, f_idx, all_rows, out_csv, doc_log >>

ioVars == << path, out_dir, batchVars >>

n == Len(sentences)

\* fname = os.path.basename(path)
fname == basename(path)

\* rec = dict(r); rec["file"] = fname
WithFile(r) == [file |-> fname] @@ r

\* os.path.join(out_json_dir, fname.replace(".xml", ".json"))
out_path == path_join(DEFAULT_OUT_JSON_DIR, replace(fname, extXml, extJson))

\* a directory without files
NoFiles == << >>

\* open(out_path, "w") ... json.dump(records, f): the file is created or
\* overwritten
WriteFile(files, name, content) == (name :> content) @@ files

\* split_sentences is not being called on its own
SplitIdle ==
    /\ s_text = << >>
    /\ s_tmp = << >>
    /\ s_sents = << >>

\* what run_batch has not started: no file list, no rows, no CSV
BatchIdle ==
    /\ xml_files = << >>
    /\ f_idx = 0
    /\ all_rows = << >>
    /\ out_csv = None
    /\ doc_log = << >>

(***************************************************************************)
(* process_single_xml, from the sentence list on.                          *)
(***************************************************************************)
Init ==
    /\ sentences \in Docs
    /\ pc = "begin"
    /\ stage = 0
    /\ used_fig = << >>
    /\ i_fig = 0
    /\ fig_caps = << >>
    /\ used_tab = << >>
    /\ i_tab = 0
    /\ tab_caps = << >>
    /\ q_calls = << >>
    /\ q_res = None
    /\ all_records = << >>
    /\ json_out = None
    /\ resp = << >>
    /\ parsed = None
    /\ path = path_join(DEFAULT_XML_DIR, nameA)
    /\ out_dir = NoFiles
    /\ BatchIdle
    /\ SplitIdle

\* faulty variant: one list is shared by all calls of a detector
NewResults_shared(earlier_results) == earlier_results

\* results = [] of a detector: a new list at every call
NewResults(earlier_results) == << >>

\* entry of detect_figure_captions
EnterFig ==
    /\ pc' = "fig"
    /\ used_fig' = FigUsedInit(n, used_fig)
    /\ fig_caps' = NewResults(fig_caps)
    /\ i_fig' = 0
    /\ UNCHANGED tabVars

\* entry of detect_table_captions
EnterTab ==
    /\ pc' = "tab"
    /\ used_tab' = TabUsedInit(n, used_fig)
    /\ tab_caps' = NewResults(tab_caps)
    /\ i_tab' = 0
    /\ UNCHANGED figVars

\* the next statement of process_single_xml after k detector calls
Proceed(k) ==
    /\ stage' = k + 1
    /\ IF k + 1 > Len(Pipeline)
       THEN pc' = "collect" /\ UNCHANGED << figVars, tabVars >>
       ELSE IF Pipeline[k + 1] = "fig" THEN EnterFig ELSE EnterTab

\* faulty variant: a record without a caption is returned
EarlyReturn_filler == << [type |-> "NONE"] >>

\* return [] before the detectors are called
EarlyReturn == << >>

\* if not sentences: return []
NoSentences ==
    /\ pc = "begin"
    /\ sentences = << >>
    /\ all_records' = EarlyReturn
    /\ pc' = "done"
    /\ UNCHANGED << sentences, stage, figVars, tabVars, q_calls, q_res,
                    json_out, parseVars, splitVars, ioVars >>

StartDetection ==
    /\ pc = "begin"
    /\ sentences # << >>
    /\ Proceed(0)
    /\ UNCHANGED << sentences, q_calls, q_res, all_records, json_out,
                    parseVars, splitVars, ioVars >>

(***************************************************************************)
(* detect_figure_captions: one iteration of the for loop per step.         *)
(***************************************************************************)
FigSkip ==
    /\ pc = "fig"
    /\ i_fig < n
    /\ used_fig[i_fig] \/ FIG_PATTERN_search(At(sentences, i_fig)) = 0
    /\ i_fig' = i_fig + 1
    /\ UNCHANGED << sentences, pc, stage, used_fig, fig_caps, tabVars,
                    q_calls, q_res, all_records, json_out, parseVars, splitVars, ioVars >>

FigEmit ==
    /\ pc = "fig"
    /\ i_fig < n
    /\ ~used_fig[i_fig]
    /\ FIG_PATTERN_search(At(sentences, i_fig)) # 0
    /\ used_fig' = MarkUsed(used_fig, i_fig, FigEndIdx(i_fig, n))
    /\ fig_caps' = Append(fig_caps, FigureRecord(sentences, i_fig))
    /\ i_fig' = i_fig + 1
    /\ UNCHANGED << sentences, pc, stage, tabVars, q_calls, q_res,
                    all_records, json_out, parseVars, splitVars, ioVars >>

FigReturn ==
    /\ pc = "fig"
    /\ i_fig >= n
    /\ Proceed(stage)
    /\ UNCHANGED << sentences, q_calls, q_res, all_records, json_out,
                    parseVars, splitVars, ioVars >>

(***************************************************************************)
(* detect_table_captions: one iteration of the while loop per step; an     *)
(* iteration with a candidate is two steps, the call of call_qwen_table    *)
(* and its return.                                                         *)
(***************************************************************************)
TabSkip ==
    /\ pc = "tab"
    /\ i_tab < n
    /\ used_tab[i_tab] \/ ~TABLE_KEYWORD_PAT_search(At(sentences, i_tab))
    /\ i_tab' = i_tab + 1
    /\ UNCHANGED << sentences, pc, stage, figVars, used_tab, tab_caps,
                    q_calls, q_res, all_records, json_out, parseVars, splitVars, ioVars >>

TabCall ==
    /\ pc = "tab"
    /\ i_tab < n
    /\ ~used_tab[i_tab]
    /\ TABLE_KEYWORD_PAT_search(At(sentences, i_tab))
    /\ q_calls' = Append(q_calls,
                         [idx |-> i_tab, window |-> Window(sentences, i_tab)])
    /\ pc' = "await"
    /\ UNCHANGED << sentences, stage, figVars, tabVars, q_res, all_records,
                    json_out, parseVars, splitVars, ioVars >>

TabAccept ==
    /\ pc = "await"
    /\ \E q \in QResults :
          LET end_idx == TabEndIdx(i_tab, q.end_index, n)
          IN  /\ IsCaption(q.label, q.end_index)
              /\ q_res' = q
              /\ used_tab' = MarkUsed(used_tab, i_tab, end_idx)
              /\ tab_caps' = Append(tab_caps,
                                    AcceptedRecord(sentences, i_tab, q))
              /\ i_tab' = AcceptNextI(end_idx)
    /\ pc' = "tab"
    /\ UNCHANGED << sentences, stage, figVars, q_calls, all_records,
                    json_out, parseVars, splitVars, ioVars >>

TabReject ==
    /\ pc = "await"
    /\ \E q \in QResults :
          /\ ~IsCaption(q.label, q.end_index)
          /\ q_res' = q
          /\ tab_caps' = Append(tab_caps, RejectedRecord(sentences, i_tab, q))
          /\ i_tab' = RejectNextI(i_tab)
    /\ pc' = "tab"
    /\ UNCHANGED << sentences, stage, figVars, used_tab, q_calls,
                    all_records, json_out, parseVars, splitVars, ioVars >>

TabReturn ==
    /\ pc = "tab"
    /\ i_tab >= n
    /\ Proceed(stage)
    /\ UNCHANGED << sentences, q_calls, q_res, all_records, json_out,
                    parseVars, splitVars, ioVars >>

(***************************************************************************)
(* process_single_xml: tag the records with the file, write the JSON.      *)
(***************************************************************************)
\* faulty variant: the TABLE records come first
Concat_tab_first(fig, tab) == tab \o fig

\* fig_caps + tab_caps
Concat(fig, tab) == fig \o tab

\* all_records: every record of the list, with the file
Tagged(recs) == [k \in 1..Len(recs) |-> WithFile(recs[k])]

Collect ==
    /\ pc = "collect"
    /\ LET recs == Tagged(Concat(fig_caps, tab_caps))
       IN  /\ all_records' = recs
           /\ json_out' = IF recs # << >> THEN Some(recs) ELSE None
           /\ out_dir' = IF recs # << >>
                         THEN WriteFile(out_dir, out_path, recs)
                         ELSE out_dir
    /\ pc' = "done"
    /\ UNCHANGED << sentences, stage, figVars, tabVars, q_calls, q_res,
                    parseVars, splitVars, path, batchVars >>

Next ==
    \/ NoSentences
    \/ StartDetection
    \/ FigSkip
    \/ FigEmit
    \/ FigReturn
    \/ TabSkip
    \/ TabCall
    \/ TabAccept
    \/ TabReject
    \/ TabReturn
    \/ Collect

Spec == Init /\ [][Next]_vars

\* where the function is: the statement it is at and its two scan indices
scanVars == << pc, i_fig, i_tab >>

\* the interpreter runs the next statement of a function that has not
\* returned: the statement after it, or the next turn of a scan loop
Advance ==
    /\ pc # "done"
    /\ pc' \in {"fig", "tab", "await", "collect", "done"}
    /\ i_fig' \in 0..Len(sentences)
    /\ i_tab' \in 0..Len(sentences)

\* the program is sequential and every call of the oracle returns, with a
\* reply or with the result made of its exception: a function that has not
\* returned takes its next step
SpecLive == Spec /\ WF_scanVars(Advance)

(***************************************************************************)
(* run_batch: the files of xml_dir, one call of process_single_xml per     *)
(* file, then the CSV.                                                     *)
(***************************************************************************)
InitBatch ==
    /\ \E listing \in SUBSET DirNames : xml_files = XmlFilesOf(listing)
    /\ f_idx = 0
    /\ all_rows = << >>
    /\ out_csv = None
    /\ doc_log = << >>
    /\ out_dir = NoFiles
    /\ path = << >>
    /\ pc = "batch"
    /\ sentences = << >>
    /\ stage = 0
    /\ used_fig = << >>
    /\ i_fig = 0
    /\ fig_caps = << >>
    /\ used_tab = << >>
    /\ i_tab = 0
    /\ tab_caps = << >>
    /\ q_calls = << >>
    /\ q_res = None
    /\ all_records = << >>
    /\ json_out = None
    /\ resp = << >>
    /\ parsed = None
    /\ SplitIdle

\* rows = process_single_xml(path, out_json_dir): the call
OpenFile ==
    /\ pc = "batch"
    /\ f_idx < Len(xml_files)
    /\ path' = xml_files[f_idx + 1]
    /\ pc' = "extract"
    /\ sentences' = << >>
    /\ stage' = 0
    /\ all_records' = << >>
    /\ json_out' = None
    /\ q_calls' = << >>
    /\ q_res' = None
    /\ UNCHANGED << figVars, tabVars, parseVars, splitVars, out_dir, batchVars >>

\* if not rawtext: return []
NoRawtext ==
    /\ pc = "extract"
    /\ ~Truthy(RawtextOf[fname])
    /\ all_records' = EarlyReturn
    /\ pc' = "done"
    /\ UNCHANGED << sentences, stage, figVars, tabVars, q_calls, q_res,
                    json_out, parseVars, splitVars, ioVars >>

\* sentences = split_sentences(rawtext)
SplitText ==
    /\ pc = "extract"
    /\ Truthy(RawtextOf[fname])
    /\ sentences' = SentencesOf[fname]
    /\ pc' = "begin"
    /\ UNCHANGED << stage, figVars, tabVars, q_calls, q_res, all_records,
                    json_out, parseVars, splitVars, ioVars >>

\* if rows: all_rows.extend(rows)
Extended(rows_so_far, rows) ==
    IF rows # << >> THEN rows_so_far \o rows ELSE rows_so_far

\* faulty variant: the loop ends at the first file without rows
NextFileIdx_stop(k, rows, total) == IF rows = << >> THEN total ELSE k + 1

\* for path in xml_files: the next file, whatever the rows of this one
NextFileIdx(k, rows, total) == k + 1

\* what the call was given and what it made
LogEntry ==
    [path      |-> path,
     sentences |-> sentences,
     detected  |-> stage > 0,
     fig_caps  |-> IF stage > 0 THEN fig_caps ELSE << >>,
     tab_caps  |-> IF stage > 0 THEN tab_caps ELSE << >>,
     rows      |-> all_records]

\* process_single_xml returns to the loop of run_batch
ReturnRows ==
    /\ pc = "done"
    /\ all_rows' = Extended(all_rows, all_records)
    /\ f_idx' = NextFileIdx(f_idx, all_records, Len(xml_files))
    /\ doc_log' = Append(doc_log, LogEntry)
    /\ pc' = "batch"
    /\ UNCHANGED << sentences, stage, figVars, tabVars, q_calls, q_res,
                    all_records, json_out, parseVars, splitVars, path, out_dir,
                    xml_files, out_csv >>

\* after the loop: nothing is written without rows, else the CSV
WriteCsv ==
    /\ pc = "batch"
    /\ f_idx >= Len(xml_files)
    /\ out_csv' = IF all_rows = << >> THEN None ELSE Some(all_rows)
    /\ pc' = "batch_done"
    /\ UNCHANGED << sentences, stage, figVars, tabVars, q_calls, q_res,
                    all_records, json_out, parseVars, splitVars, path, out_dir,
                    xml_files, f_idx, all_rows, doc_log >>

NextBatch ==
    \/ OpenFile
    \/ NoRawtext
    \/ SplitText
    \/ StartDetection
    \/ FigSkip
    \/ FigEmit
    \/ FigReturn
    \/ TabSkip
    \/ TabCall
    \/ TabAccept
    \/ TabReject
    \/ TabReturn
    \/ Collect
    \/ ReturnRows
    \/ WriteCsv

\* every step of the program is taken: the loop runs to its end
SpecBatch == InitBatch /\ [][NextBatch]_vars /\ WF_vars(NextBatch)

(***************************************************************************)
(* parse_table_response on its own: the argument is drawn from a family    *)
(* of response texts, the step applies the function.                       *)
(***************************************************************************)
MaxEndText == 3

MaxPad == 2

\* a run of k characters "x"
Pad(k) == [j \in 1..k |-> "x"]

RespPrefixes == {<< >>, <<"S", "u", "r", "e", ":", "\n">>, <<"L", "A", "B", "E", "L", "=", "n", "o", " ">>}

RespKeys == {kwLABEL_EQ, <<"L", "A", "B", "E", "L", " ", "=", " ">>, <<"l", "a", "b", "e", "l", "=">>}

RespLabels == {TABLE_CAPTION, NOT_CAPTION, txtMaybe, <<"T", "a", "b", "l", "e", "_", "C", "a", "p", "t", "i", "o", "n">>, << >>}

RespSeps == {<<";", " ">>, <<";">>, <<" ", ";", "\n">>, <<",", " ">>}

RespEnds ==
    {IntText(k) : k \in (0 - MaxEndText)..MaxEndText}
    \cup {<<"0", "2">>, <<"x">>, <<"-">>}

RespReasons == {<<"R", "E", "A", "S", "O", "N", "=", "o", "k">>, <<"R", "E", "A", "S", "O", "N", "=">>, <<"R", "E", "A", "S", "O", "N", " ", "=", " ", "a", "\n", "b", " ">>, << >>}

\* texts built like the format of the prompt, with deviations in each part
FormatInputs ==
    {pre \o key \o lab \o sep \o kwEND_INDEX \o << "=" >> \o e
         \o << ";", " " >> \o rsn :
        pre \in RespPrefixes, key \in RespKeys, lab \in RespLabels,
        sep \in RespSeps, e \in RespEnds, rsn \in RespReasons}

\* texts without the format, around the length text_one is cut to
LongInputs ==
    {pre \o Pad(RawReasonLen + d) :
        pre \in {<< >>, kwLABEL_EQ}, d \in (0 - MaxPad)..MaxPad}

ParseInputs == FormatInputs \cup LongInputs \cup {<< >>}

InitParse ==
    /\ resp \in ParseInputs
    /\ parsed = None
    /\ pc = "parse"
    /\ sentences = << >>
    /\ stage = 0
    /\ used_fig = << >>
    /\ i_fig = 0
    /\ fig_caps = << >>
    /\ used_tab = << >>
    /\ i_tab = 0
    /\ tab_caps = << >>
    /\ q_calls = << >>
    /\ q_res = None
    /\ all_records = << >>
    /\ json_out = None
    /\ path = << >>
    /\ out_dir = NoFiles
    /\ BatchIdle
    /\ SplitIdle

\* the return value for each text of the family
ParseOf == [t \in ParseInputs |-> parse_table_response(t)]

Parse ==
    /\ pc = "parse"
    /\ parsed' = ParseOf[resp]
    /\ pc' = "parsed"
    /\ UNCHANGED << sentences, stage, figVars, tabVars, q_calls, q_res,
                    all_records, json_out, resp, splitVars, ioVars >>

NextParse == Parse

\* the call runs to its return
SpecParse == InitParse /\ [][NextParse]_vars /\ WF_vars(Parse)

(***************************************************************************)
(* split_sentences on its own: the text is drawn from a family of texts    *)
(* made of a few pieces, and the three statements of the function run.     *)
(***************************************************************************)
\* the largest number of pieces a text of the family is made of
MaxPieces == 2

\* the pieces: protected abbreviations with and without a sentence after
\* them, sentence ends, runs of whitespace, a lower-case abbreviation, the
\* placeholder tokens themselves and their parts
TextPieces ==
    {<<"F", "i", "g", ".", " ", "1", " ", "a", ".", " ">>,
     <<"F", "i", "g", "s", ".", " ", "2", " ", "b", "!", " ">>,
     <<"x", "?", " ">>,
     <<"y">>,
     <<"F", "i", "g", ".">>,
     <<"F", "i", "g", "s", ".">>,
     <<" ">>,
     <<"\n">>,
     <<"f", "i", "g", ".", " ", "3", ".", " ">>,
     <<"F", "I", "G", "S", "P", "E", "C", "I", "A", "L", "T", "O", "K",
       "E", "N", " ", "4", ".", " ">>,
     <<"F", "I", "G", "S", "S", "P", "E", "C", "I", "A", "L", "T", "O",
       "K", "E", "N", " ">>,
     <<"F", "I", "G", "S">>,
     <<"S", "P", "E", "C", "I", "A", "L", "T", "O", "K", "E", "N">>,
     <<".">>}

\* some longer texts, one of them not normalised
LongTexts ==
    {<<"S", "e", "e", " ", "F", "i", "g", ".", " ", "1", " ", "a", ".",
       " ", "F", "i", "g", "s", ".", " ", "2", " ", "b", "!", " ",
       "x", "?", " ", "y">>,
     <<"a", ".", " ", "F", "i", "g", ".", " ", "b", ".", " ", "F", "i",
       "g", "s", ".", " ", "c", ".">>,
     <<" ", "a", ".", " ", " ", "F", "i", "g", ".", "\n", "1", ".", "\t">>}

\* the concatenations of k pieces
RECURSIVE PieceTexts(_)
PieceTexts(k) ==
    IF k = 0 THEN {<< >>}
    ELSE {t \o p : t \in PieceTexts(k - 1), p \in TextPieces}

SplitInputs == UNION {PieceTexts(k) : k \in 0..MaxPieces} \cup LongTexts

InitSplit ==
    /\ s_text \in SplitInputs
    /\ s_tmp = << >>
    /\ s_sents = << >>
    /\ pc = "protect"
    /\ sentences = << >>
    /\ stage = 0
    /\ used_fig = << >>
    /\ i_fig = 0
    /\ fig_caps = << >>
    /\ used_tab = << >>
    /\ i_tab = 0
    /\ tab_caps = << >>
    /\ q_calls = << >>
    /\ q_res = None
    /\ all_records = << >>
    /\ json_out = None
    /\ resp = << >>
    /\ parsed = None
    /\ path = << >>
    /\ out_dir = NoFiles
    /\ BatchIdle

\* tmp = text.replace("Fig.", FIG_TOKEN).replace("Figs.", FIGS_TOKEN)
ProtectText ==
    /\ pc = "protect"
    /\ s_tmp' = Protect(s_text)
    /\ pc' = "split"
    /\ UNCHANGED << s_text, s_sents, sentences, stage, figVars, tabVars, q_calls,
                    q_res, all_records, json_out, parseVars, ioVars >>

\* sents = _SENT_SPLIT_RE.split(tmp), stripped, without the empty ones
SplitTmp ==
    /\ pc = "split"
    /\ s_sents' = StripNonEmpty(SentSplit(s_tmp))
    /\ pc' = "restore"
    /\ UNCHANGED << s_text, s_tmp, sentences, stage, figVars, tabVars, q_calls,
                    q_res, all_records, json_out, parseVars, ioVars >>

\* the loop that restores the tokens; restored is returned
RestoreSents ==
    /\ pc = "restore"
    /\ sentences' = RestoreAll(s_sents)
    /\ pc' = "split_done"
    /\ UNCHANGED << s_text, s_tmp, s_sents, stage, figVars, tabVars, q_calls,
                    q_res, all_records, json_out, parseVars, ioVars >>

NextSplit ==
    \/ ProtectText
    \/ SplitTmp
    \/ RestoreSents

\* the call runs to its return
SpecSplit == InitSplit /\ [][NextSplit]_vars /\ WF_vars(NextSplit)

(***************************************************************************)
(* Properties.                                                             *)
(***************************************************************************)
\* the records of the document, in the order of all_records
DocRecords == fig_caps \o tab_caps

Disjoint(r1, r2) ==
    \/ r1.end_sent_idx < r2.start_sent_idx
    \/ r2.end_sent_idx < r1.start_sent_idx

\* a TABLE record of an accepted candidate
Accepted(r) ==
    /\ r.table_label = Some(TABLE_CAPTION)
    /\ r.table_end_in_window.val \in {0, 1, 2}

\* the call of call_qwen_table returns in this step
CallReturns == pc = "await" /\ pc' # "await"

\* the record appended in this step
NewRecord == tab_caps'[Len(tab_caps')]

\* exactly one record is appended in this step
OneRecordAppended ==
    /\ Len(tab_caps') = Len(tab_caps) + 1
    /\ SubSeq(tab_caps', 1, Len(tab_caps)) = tab_caps

\* C1: no two records of one document, of either type, accepted or
\* rejected, have intersecting spans [start_sent_idx, end_sent_idx].
C1_NonOverlap ==
    \A a, b \in 1..Len(DocRecords) :
        a # b => Disjoint(DocRecords[a], DocRecords[b])

\* C2: every record emitted by either detector has
\* 0 <= start_sent_idx <= end_sent_idx <= len(sentences) - 1, whatever the
\* oracle answered.
C2_SpanValidity ==
    \A k \in 1..Len(DocRecords) :
        /\ 0 <= DocRecords[k].start_sent_idx
        /\ DocRecords[k].start_sent_idx <= DocRecords[k].end_sent_idx
        /\ DocRecords[k].end_sent_idx <= n - 1

\* C2 witness: an accepted TABLE record whose END_INDEX pointed past the
\* last sentence.
C2_ClippedAccept ==
    \E k \in 1..Len(tab_caps) :
        /\ Accepted(tab_caps[k])
        /\ tab_caps[k].start_sent_idx + tab_caps[k].table_end_in_window.val
              > n - 1
        /\ tab_caps[k].end_sent_idx = n - 1

\* C3: the Table Detector never passes to the oracle as S0, and never starts
\* a TABLE record at, a sentence index the Figure Detector claimed.
C3_FigureClaimsInvisible ==
    /\ \A k \in 1..Len(q_calls) : ~used_fig[q_calls[k].idx]
    /\ \A k \in 1..Len(tab_caps) : ~used_fig[tab_caps[k].start_sent_idx]

\* the step in which call_qwen_table returns an acceptable result
C4_AcceptStep ==
    (/\ CallReturns
     /\ q_res'.label = TABLE_CAPTION
     /\ q_res'.end_index \in {0, 1, 2})
    => /\ OneRecordAppended
       /\ NewRecord.type = TABLE
       /\ NewRecord.start_sent_idx = i_tab
       /\ NewRecord.end_sent_idx = Min(i_tab + q_res'.end_index, n - 1)
       /\ \A k \in 0..(n - 1) :
             used_tab'[k] =
                 (used_tab[k] \/ (i_tab <= k /\ k <= NewRecord.end_sent_idx))
       /\ \A k \in i_tab..NewRecord.end_sent_idx : ~used_tab[k]
       /\ i_tab' = NewRecord.end_sent_idx + 1
       /\ pc' = "tab"

\* no call after an accepted record has its S0 inside the record's span
C4_NoReoffer ==
    \A k \in 1..Len(tab_caps) :
        Accepted(tab_caps[k]) =>
            \A m \in (k + 1)..Len(q_calls) :
                q_calls[m].idx > tab_caps[k].end_sent_idx

\* C4: when the oracle result for the candidate at i is TABLE_CAPTION with
\* end_in_window in {0,1,2}, one TABLE record with span
\* i .. min(i + end_in_window, last index) is appended, exactly the indices
\* of the span become claimed, and the scan resumes at end index + 1; no
\* sentence inside an accepted span is offered as S0 afterwards.
C4_TableAcceptance == [][C4_AcceptStep]_vars /\ []C4_NoReoffer

\* C4 witness: an accepted caption of more than one sentence, and a later
\* candidate passed to the oracle.
C4_AcceptedThenCall ==
    \E k \in 1..Len(tab_caps) :
        /\ Accepted(tab_caps[k])
        /\ tab_caps[k].end_sent_idx > tab_caps[k].start_sent_idx
        /\ Len(q_calls) > k

\* the step in which call_qwen_table returns any other result
C5_RejectStep ==
    (/\ CallReturns
     /\ ~(q_res'.label = TABLE_CAPTION /\ q_res'.end_index \in {0, 1, 2}))
    => /\ OneRecordAppended
       /\ NewRecord.start_sent_idx = i_tab
       /\ NewRecord.end_sent_idx = i_tab
       /\ used_tab' = used_tab
       /\ i_tab' = i_tab + 1
       /\ pc' = "tab"

\* C5: when the oracle result is anything other than TABLE_CAPTION with
\* end_in_window in {0,1,2}, one record with start = end = i is appended,
\* no sentence becomes claimed and i advances by exactly 1.
C5_TableRejection == [][C5_RejectStep]_vars

\* C5 witness: after a rejection at i, sentence i + 1 is S0 of the next call
\* and was in the window of the rejected candidate.
C5_RejectedThenReused ==
    \E k \in 1..Len(tab_caps) :
        /\ ~Accepted(tab_caps[k])
        /\ Len(q_calls) > k
        /\ q_calls[k + 1].idx = tab_caps[k].start_sent_idx + 1
        /\ q_calls[k + 1].window[1] = tab_caps[k].raw_window[2]
        /\ ~used_tab[tab_caps[k].start_sent_idx]

\* the step in which call_qwen_table returns a failure
C8_FailureStep ==
    (/\ CallReturns
     /\ q_res'.label \in {ERROR, PARSE_ERROR}
     /\ q_res'.end_index = -1)
    => /\ OneRecordAppended
       /\ NewRecord.type = TABLE
       /\ NewRecord.id = None
       /\ NewRecord.start_sent_idx = i_tab
       /\ NewRecord.end_sent_idx = i_tab
       /\ NewRecord.table_label = Some(q_res'.label)
       /\ used_tab' = used_tab
       /\ i_tab' = i_tab + 1
       /\ pc' = "tab"

\* a document that is collected was scanned to its last sentence, with one
\* record per call
C8_PassCompletes ==
    (pc \in {"collect", "done"} /\ n > 0)
    => /\ i_tab >= n
       /\ Len(tab_caps) = Len(q_calls)

\* C8: a candidate whose oracle call failed (ERROR, -1) or whose response
\* broke the grammar (PARSE_ERROR, -1) gets exactly one single-sentence
\* rejected record carrying that label, nothing is claimed, the scan goes on
\* at the next sentence, and the pass runs to the end of the document.
C8_OracleFailuresNotFatal == [][C8_FailureStep]_vars /\ []C8_PassCompletes

\* C8 witness: a finished document whose first candidate failed with ERROR,
\* whose second broke the grammar, and whose third was still processed.
C8_FailuresThenMore ==
    /\ pc = "done"
    /\ Len(tab_caps) = 3
    /\ tab_caps[1].table_label = Some(ERROR)
    /\ tab_caps[2].table_label = Some(PARSE_ERROR)
    /\ tab_caps[2].table_end_in_window = Some(-1)

\* C9: no sentence index is passed to the oracle as S0 more than once.
C9_OneCallPerS0 ==
    \A a, b \in 1..Len(q_calls) :
        a # b => q_calls[a].idx # q_calls[b].idx

\* C9 witness: a finished document with an accepted, a failed and a
\* rejected candidate.
C9_ThreeCalls ==
    /\ pc = "done"
    /\ Len(q_calls) = 3
    /\ Accepted(tab_caps[1])
    /\ tab_caps[2].table_label = Some(ERROR)
    /\ tab_caps[3].table_label = Some(NOT_CAPTION)

\* the Table pass has started, called the oracle or emitted a record
TableBegun ==
    pc \in {"tab", "await"} \/ q_calls # << >> \/ tab_caps # << >>

C10_FigureComplete == TableBegun => (pc # "fig" /\ i_fig >= n)

C10_NoFigureStep == TableBegun => UNCHANGED figVars

\* C10: the Figure pass is complete before the Table pass issues its first
\* oracle call or emits its first record, and no Figure step happens once
\* the Table pass has begun.
C10_FixedOrder == []C10_FigureComplete /\ [][C10_NoFigureStep]_vars

\* C10 witness: the Table pass waits for the oracle after the Figure pass
\* emitted a record.
C10_TableAfterFigure == pc = "await" /\ fig_caps # << >>

(***************************************************************************)
(* Properties of parse_table_response.                                     *)
(***************************************************************************)
\* text_one and the match object m of the argument
RespOneLine == OneLine(FromLabel(resp))

RespMatch == TableRespSearch(RespOneLine)

\* reason is "raw: " followed by the first 200 characters of text_one
IsRawReason(reason, text_one) ==
    /\ Len(reason) = Len(rawPrefix) + Min(RawReasonLen, Len(text_one))
    /\ \A k \in 1..Len(rawPrefix) : reason[k] = rawPrefix[k]
    /\ \A k \in 1..(Len(reason) - Len(rawPrefix)) :
          reason[Len(rawPrefix) + k] = text_one[k]

IsParseErrorResult(res, text_one) ==
    /\ res.label = PARSE_ERROR
    /\ res.end_index = -1
    /\ IsRawReason(res.reason, text_one)

LabelUnknown(m) == m.matched /\ upper(m.g1) \notin {TABLE_CAPTION, NOT_CAPTION}

EndOutside(m) == m.matched /\ py_int(m.g2) \notin {-1, 0, 1, 2}

C7_ResultShape ==
    pc = "parsed" =>
        /\ DOMAIN parsed = {"label", "end_index", "reason"}
        /\ parsed.label \in {TABLE_CAPTION, NOT_CAPTION, PARSE_ERROR}
        /\ parsed.end_index \in {-1, 0, 1, 2}

\* C7: parse_table_response returns for every response text (empty,
\* multi-line, with or without "LABEL="), and what it returns is a dict
\* whose label is TABLE_CAPTION, NOT_CAPTION or PARSE_ERROR and whose
\* end_index is in {-1,0,1,2}.
C7_GrammarRobustness ==
    []C7_ResultShape /\ (pc = "parse" ~> pc = "parsed")

\* C7 witness: a multi-line response with text before "LABEL=" and an
\* integer outside the range.
C7_MultiLineOutOfRange ==
    /\ pc = "parsed"
    /\ find(resp, kwLABEL_EQ) > 1
    /\ "\n" \in Range(resp)
    /\ RespMatch.matched
    /\ EndOutside(RespMatch)
    /\ parsed.end_index = -1

(***************************************************************************)
(* Properties of detect_figure_captions.                                   *)
(***************************************************************************)
\* the sentence the scan is at matches FIG_PATTERN and is not claimed
FigStartHere ==
    /\ FIG_PATTERN_search(At(sentences, i_fig)) # 0
    /\ ~used_fig[i_fig]

\* one FIGURE record for i_fig .. min(i_fig + 2, last index) is appended and
\* exactly these indices become claimed
FigRecordAppended ==
    /\ Len(fig_caps') = Len(fig_caps) + 1
    /\ SubSeq(fig_caps', 1, Len(fig_caps)) = fig_caps
    /\ fig_caps'[Len(fig_caps')].type = FIGURE
    /\ fig_caps'[Len(fig_caps')].start_sent_idx = i_fig
    /\ fig_caps'[Len(fig_caps')].end_sent_idx = Min(i_fig + 2, n - 1)
    /\ \A k \in 0..(n - 1) :
          used_fig'[k] =
              (used_fig[k] \/ (i_fig <= k /\ k <= Min(i_fig + 2, n - 1)))

\* a step of the scan at an index of the document
C11_ScanStep ==
    (pc = "fig" /\ i_fig < n)
    => /\ i_fig' = i_fig + 1
       /\ pc' = "fig"
       /\ IF FigStartHere THEN FigRecordAppended
          ELSE fig_caps' = fig_caps /\ used_fig' = used_fig

\* C11: scanning left to right, the Figure Detector emits a FIGURE record
\* exactly for each sentence that matches the figure pattern and is
\* unclaimed when the scan reaches it; the span is
\* start .. min(start + 2, last index), exactly its indices become claimed,
\* and every other index (claimed, or not matching) is passed without a
\* record; after either the scan goes to the next index.
C11_FigureRule == [][C11_ScanStep]_vars

\* C11 witness: the Figure pass is over, a record spans three sentences and
\* a matching sentence inside the span got no record of its own.
C11_MatchInsideSpan ==
    /\ pc \in {"tab", "await"}
    /\ \E k \in 1..Len(fig_caps) :
          /\ fig_caps[k].end_sent_idx = fig_caps[k].start_sent_idx + 2
          /\ FIG_PATTERN_search(At(sentences, fig_caps[k].start_sent_idx + 1)) # 0
          /\ \A m \in 1..Len(fig_caps) :
                fig_caps[m].start_sent_idx # fig_caps[k].start_sent_idx + 1

(***************************************************************************)
(* Properties of run_batch.                                                *)
(***************************************************************************)
\* the calls of process_single_xml that reached the detectors
DetectorRuns == {k \in 1..Len(doc_log) : doc_log[k].detected}

\* C12: two runs of the Figure Detector on the same sentence sequence give
\* the same record sequence; no flag of the first run is seen by the second.
C12_FigureDeterminism ==
    \A a, b \in DetectorRuns :
        doc_log[a].sentences = doc_log[b].sentences
        => doc_log[a].fig_caps = doc_log[b].fig_caps

\* C12 witness: two runs on the same sentences, each with a FIGURE record.
C12_SameSentencesTwice ==
    \E a, b \in DetectorRuns :
        /\ a < b
        /\ doc_log[a].sentences = doc_log[b].sentences
        /\ doc_log[a].fig_caps # << >>
        /\ doc_log[b].fig_caps # << >>

\* the records the detectors returned in call k, tagged as process_single_xml
\* tags them
TaggedOfCall(k) ==
    [j \in 1..Len(doc_log[k].fig_caps \o doc_log[k].tab_caps) |->
        [file |-> basename(doc_log[k].path)]
            @@ (doc_log[k].fig_caps \o doc_log[k].tab_caps)[j]]

\* the per-document output of call k
OutPathOfCall(k) ==
    path_join(DEFAULT_OUT_JSON_DIR,
              replace(basename(doc_log[k].path), extXml, extJson))

\* how often r occurs in a list
Occurrences(r, list) == Cardinality({m \in 1..Len(list) : list[m] = r})

\* C13: after a batch, every record a detector produced for a document,
\* rejected TABLE candidates included, is exactly once in the per-document
\* output of the document and exactly once a row of the aggregate output,
\* with the file name of the document.
C13_NoRecordDropped ==
    pc = "batch_done" =>
        \A k \in 1..Len(doc_log) :
            \A j \in 1..Len(TaggedOfCall(k)) :
                /\ OutPathOfCall(k) \in DOMAIN out_dir
                /\ Occurrences(TaggedOfCall(k)[j], out_dir[OutPathOfCall(k)]) = 1
                /\ out_csv.some
                /\ Occurrences(TaggedOfCall(k)[j], out_csv.val) = 1

(***************************************************************************)
(* Properties of the output of process_single_xml.                         *)
(***************************************************************************)
\* the start indices of a record list increase strictly
StartsIncrease(recs) ==
    \A k \in 1..(Len(recs) - 1) :
        recs[k].start_sent_idx < recs[k + 1].start_sent_idx

\* C14: the per-document output holds the FIGURE records in the order the
\* Figure pass emitted them, then the TABLE records in the order the Table
\* pass emitted them, and in both groups the start index increases strictly.
C14_OutputOrder ==
    (pc = "done" /\ out_path \in DOMAIN out_dir) =>
        /\ Len(out_dir[out_path]) = Len(fig_caps) + Len(tab_caps)
        /\ \A k \in 1..Len(fig_caps) :
              /\ out_dir[out_path][k] = WithFile(fig_caps[k])
              /\ out_dir[out_path][k].type = FIGURE
        /\ \A k \in 1..Len(tab_caps) :
              /\ out_dir[out_path][Len(fig_caps) + k] = WithFile(tab_caps[k])
              /\ out_dir[out_path][Len(fig_caps) + k].type = TABLE
        /\ StartsIncrease(fig_caps)
        /\ StartsIncrease(tab_caps)

\* C14 witness: an output with two FIGURE records followed by two TABLE
\* records, the first TABLE record starting before the second FIGURE record.
C14_TwoOfEach ==
    /\ pc = "done"
    /\ out_path \in DOMAIN out_dir
    /\ Len(fig_caps) = 2
    /\ Len(tab_caps) = 2
    /\ tab_caps[1].start_sent_idx < fig_caps[2].start_sent_idx

\* process_single_xml is about to return for a document without sentences
EmptyReturned == pc = "done" /\ sentences = << >>

\* the loop of run_batch has called process_single_xml for every file
BatchComplete ==
    /\ pc = "batch_done"
    /\ Len(doc_log) = Len(xml_files)
    /\ \A k \in 1..Len(xml_files) : doc_log[k].path = xml_files[k]

\* nothing was detected, asked or written in this call, and the call returns
C15_NothingDone ==
    EmptyReturned =>
        /\ all_records = << >>
        /\ stage = 0
        /\ q_calls = << >>
        /\ json_out = None
        /\ ENABLED ReturnRows

\* the return of such a call hands the loop on to the next file
C15_LoopGoesOn ==
    EmptyReturned =>
        /\ pc' = "batch"
        /\ f_idx' = f_idx + 1
        /\ UNCHANGED << xml_files, all_rows, out_dir, out_csv >>

\* the loop opens the next file while there is one, and ends after the last
C15_NextFileOpened ==
    /\ (pc = "batch" /\ f_idx < Len(xml_files)) => ENABLED OpenFile
    /\ pc = "batch_done" => BatchComplete

\* C15: a document whose extracted text is empty, or gives no sentences,
\* yields zero records without a detector or oracle call and without a
\* file, and the batch goes on with the next document.
C15_EmptyTextNotFatal ==
    /\ []C15_NothingDone
    /\ [][C15_LoopGoesOn]_vars
    /\ []C15_NextFileOpened

\* C15 witness: the batch is over; a document with a blank rawtext came
\* before a document with records.
C15_BlankThenRecords ==
    /\ BatchComplete
    /\ \E a, b \in 1..Len(doc_log) :
          /\ a < b
          /\ RawtextOf[basename(doc_log[a].path)] = Some(<< >>)
          /\ doc_log[a].rows = << >>
          /\ doc_log[b].rows # << >>

\* what the oracle answered for the candidate of a TABLE record
Answer(r) == << r.table_label, r.table_end_in_window, r.table_reason >>

\* what the oracle was asked for the candidate of a TABLE record
Asked(r) == << r.start_sent_idx, r.raw_window >>

\* the answers of the first k records of two Table passes agree
SameAnswers(ta, tb, k) == \A j \in 1..k : Answer(ta[j]) = Answer(tb[j])

\* two Table passes are the same as far as the oracle answered the same:
\* with equal answers so far the same candidate is asked next, or none in
\* both, and with an equal answer the same record is made
SameUpToOracle(ta, tb, m) ==
    \A k \in 0..m :
        SameAnswers(ta, tb, k) =>
            /\ (Len(ta) = k) = (Len(tb) = k)
            /\ k < m => /\ Asked(ta[k + 1]) = Asked(tb[k + 1])
                        /\ Answer(ta[k + 1]) = Answer(tb[k + 1])
                           => ta[k + 1] = tb[k + 1]

\* the detectors made of the same sentences what they made in another call
SameOutcome(a, b) ==
    /\ doc_log[a].fig_caps = doc_log[b].fig_caps
    /\ SameUpToOracle(doc_log[a].tab_caps, doc_log[b].tab_caps,
                      Min(Len(doc_log[a].tab_caps), Len(doc_log[b].tab_caps)))

\* the file of the current call cannot be parsed
UnreadableOpen ==
    pc \in {"extract", "done"} /\ ~FileAt(path).readable

\* the calls of process_single_xml on files that cannot be parsed
UnreadableCalls ==
    {k \in 1..Len(doc_log) : ~FileAt(doc_log[k].path).readable}

\* the call on such a file has no record, asks and writes nothing, returns
C16_ZeroRecords ==
    UnreadableOpen =>
        /\ all_records = << >>
        /\ q_calls = << >>
        /\ json_out = None
        /\ ENABLED (NoRawtext \/ ReturnRows)

\* it changes nothing the batch has gathered, and the loop takes the next file
C16_BatchUntouched ==
    UnreadableOpen =>
        /\ UNCHANGED << xml_files, all_rows, out_dir, out_csv >>
        /\ pc = "done" => pc' = "batch" /\ f_idx' = f_idx + 1

\* a document processed after such a file is treated as the same document
\* processed before it
C16_OthersAsWithout ==
    \A a, b, c \in 1..Len(doc_log) :
        (/\ a < b
         /\ b < c
         /\ b \in UnreadableCalls
         /\ doc_log[a].detected
         /\ doc_log[a].sentences = doc_log[c].sentences)
        => doc_log[c].detected /\ SameOutcome(a, c)

\* C16: a read or parse failure of one document yields zero records for it
\* and does not abort the batch; the records of the other documents are as
\* if the unreadable document had not been in the batch.
C16_UnreadableRecoverable ==
    /\ []C16_ZeroRecords
    /\ [][C16_BatchUntouched]_vars
    /\ []C16_OthersAsWithout
    /\ [](pc = "batch_done" => Len(doc_log) = Len(xml_files))

\* C16 witness: the batch is over; the same sentences were processed before
\* and after an unreadable file, with a TABLE record each time.
C16_AroundUnreadable ==
    /\ pc = "batch_done"
    /\ \E a, b, c \in 1..Len(doc_log) :
          /\ a < b
          /\ b < c
          /\ b \in UnreadableCalls
          /\ doc_log[a].sentences = doc_log[c].sentences
          /\ doc_log[a].tab_caps # << >>
          /\ doc_log[c].rows # << >>

\* every record the detectors hold and every record of the output
RecordsNow == Range(fig_caps) \cup Range(tab_caps) \cup Range(all_records)

\* the three oracle fields of a record are None
OracleFieldsNull(r) ==
    /\ r.table_label = None
    /\ r.table_end_in_window = None
    /\ r.table_reason = None

\* the three oracle fields of a record hold a value
OracleFieldsPresent(r) ==
    /\ r.table_label.some
    /\ r.table_end_in_window.some
    /\ r.table_reason.some

\* C17, as amended: every FIGURE record has the sentences of its span as
\* raw_window, one to three of them and never none, and None in the three
\* oracle fields; every TABLE record has a value in all three oracle fields.
C17_TypeDependentFields ==
    \A r \in RecordsNow :
        /\ r.type = FIGURE =>
              /\ r.raw_window = Slice(sentences, r.start_sent_idx, r.end_sent_idx)
              /\ Len(r.raw_window) \in 1..3
              /\ OracleFieldsNull(r)
        /\ r.type = TABLE => OracleFieldsPresent(r)

\* C17 witness: the written output holds a FIGURE record of three sentences
\* and a TABLE record.
C17_BothTypesWritten ==
    /\ json_out # None
    /\ \E r \in Range(json_out.val) : r.type = FIGURE /\ Len(r.raw_window) = 3
    /\ \E r \in Range(json_out.val) : r.type = TABLE

\* C17 as stated: every FIGURE record has an empty raw_window and null
\* oracle fields; every TABLE record has all three oracle fields present.
C17_FigureWindowEmpty ==
    \A r \in RecordsNow :
        /\ r.type = FIGURE => r.raw_window = << >> /\ OracleFieldsNull(r)
        /\ r.type = TABLE => OracleFieldsPresent(r)

\* record r claims sentence k
Claims(r, k) ==
    /\ r.start_sent_idx <= k
    /\ k <= r.end_sent_idx
    /\ r.type = TABLE => IsCaption(r.table_label.val, r.table_end_in_window.val)

\* while a detector runs, its flags are one per sentence of this document,
\* and a flag that is set belongs to a record made for this document
C18_OwnClaimsOnly ==
    /\ pc = "fig" =>
          /\ DOMAIN used_fig = 0..(n - 1)
          /\ \A k \in 0..(n - 1) :
                used_fig[k] => \E r \in Range(fig_caps) : Claims(r, k)
    /\ pc \in {"tab", "await"} =>
          /\ DOMAIN used_tab = 0..(n - 1)
          /\ \A k \in 0..(n - 1) :
                used_tab[k] =>
                    \E r \in Range(fig_caps) \cup Range(tab_caps) : Claims(r, k)

\* the records a call returns are made of the sentences of its document and
\* carry its file name
C18_OwnSentencesOnly ==
    \A k \in 1..Len(doc_log) :
        \A r \in Range(doc_log[k].rows) :
            /\ r.file = basename(doc_log[k].path)
            /\ r.end_sent_idx < Len(doc_log[k].sentences)
            /\ r.caption_text =
                  join(<< " " >>, Slice(doc_log[k].sentences,
                                        r.start_sent_idx, r.end_sent_idx))

\* two documents with the same sentences get the same records as far as the
\* oracle answered the same for their candidates, wherever they are in the
\* batch
C18_SameWhereverInBatch ==
    \A a, b \in DetectorRuns :
        doc_log[a].sentences = doc_log[b].sentences => SameOutcome(a, b)

\* C18: the consumption state is new for each document and never shared;
\* the records of a document depend only on its sentences and on the oracle
\* results for its own candidates, not on the documents processed before.
C18_PerDocumentIsolation ==
    /\ C18_OwnClaimsOnly
    /\ C18_OwnSentencesOnly
    /\ C18_SameWhereverInBatch

\* C18 witness: a detector runs on a second document after a document with
\* claims, and has set a flag of its own.
C18_SecondDocumentClaims ==
    /\ pc \in {"fig", "tab"}
    /\ \E k \in 1..Len(doc_log) :
          /\ doc_log[k].rows # << >>
          /\ doc_log[k].sentences # sentences
    /\ \E k \in 0..(n - 1) : IF pc = "fig" THEN used_fig[k] ELSE used_tab[k]

\* the base identifier of a file name: the name without its extension
BaseId(name) == SubSeq(name, 1, Len(name) - Len(extXml))

\* the per-document output named by the base identifier of call k's document
OwnOutputOfCall(k) ==
    path_join(DEFAULT_OUT_JSON_DIR, BaseId(basename(doc_log[k].path)) \o extJson)

\* C19: after a batch, every processed document has its own per-document
\* output file, holding the list of its records (possibly empty) and named
\* by the document's base identifier; no two documents share an output file.
C19_OwnOutputFile ==
    pc = "batch_done" =>
        /\ \A k \in 1..Len(doc_log) :
              /\ OutPathOfCall(k) = OwnOutputOfCall(k)
              /\ OutPathOfCall(k) \in DOMAIN out_dir
              /\ out_dir[OutPathOfCall(k)] = doc_log[k].rows
        /\ \A a, b \in 1..Len(doc_log) :
              a # b => OutPathOfCall(a) # OutPathOfCall(b)

\* the text of a region of a document, cleaned as the extractor cleans it
RegionText(nodes) ==
    strip(Normalise(replace(join(<< " " >>, nodes), << "\r" >>, << " " >>)))

\* the raw-text region when that is not empty, otherwise the body region,
\* otherwise the text of the whole document
PriorityText(doc) ==
    IF RegionText(doc.raw) # << >> THEN RegionText(doc.raw)
    ELSE IF RegionText(doc.body) # << >> THEN RegionText(doc.body)
    ELSE RegionText(AllTextNodes(doc))

\* its sentences, for every file name
PrioritySentencesOf ==
    [f \in DirNames |-> split_sentences(PriorityText(FileContent(f)))]

\* C20: the text fed to the detectors is the raw-text region of the
\* document when that is not empty, otherwise its body region, otherwise
\* the text of the whole document; a document counts as without text, with
\* zero records, only when all three are empty.
C20_ExtractorPriority ==
    \A k \in 1..Len(doc_log) :
        FileAt(doc_log[k].path).readable =>
            /\ doc_log[k].sentences =
                  PrioritySentencesOf[basename(doc_log[k].path)]
            /\ ~doc_log[k].detected =>
                  PriorityText(FileAt(doc_log[k].path)) = << >>

\* position p of s comes directly after an occurrence of "Fig." or "Figs."
AfterAbbreviation(s, p) ==
    \/ endswith(SubSeq(s, 1, p - 1), litFigDot)
    \/ endswith(SubSeq(s, 1, p - 1), litFigsDot)

\* the whitespace of s that follows a ".", "!" or "?" which does not end
\* an occurrence of "Fig." or "Figs."
AllowedBoundaries(s) ==
    {p \in 2..Len(s) :
        /\ s[p] \in Whitespace
        /\ s[p - 1] \in SentenceEnd
        /\ ~AfterAbbreviation(s, p)}

\* s cut at the runs of whitespace that begin at these positions
RECURSIVE CutAtAllowed(_)
CutFrom(s, p) ==
    IF p = 0 THEN << s >>
    ELSE << SubSeq(s, 1, p - 1) >>
         \o CutAtAllowed(From(s, reStar(s, p, Whitespace)))

CutAtAllowed(s) == CutFrom(s, MinOrZero(AllowedBoundaries(s)))

\* split_sentences has returned
SplitReturned == pc = "split_done"

\* C21: split_sentences never puts a sentence boundary at the whitespace
\* directly after "Fig." or "Figs."; boundaries are only at whitespace that
\* follows another ".", "!" or "?": the sentences are the text cut at
\* exactly that whitespace, and no sentence but the last ends with one of
\* the two abbreviations.
C21_AbbreviationProtection ==
    SplitReturned =>
        /\ sentences = RestoreAll(StripNonEmpty(CutAtAllowed(s_text)))
        /\ \A k \in 1..(Len(sentences) - 1) :
              /\ sentences[k][Len(sentences[k])] \in SentenceEnd
              /\ ~endswith(sentences[k], litFigDot)
              /\ ~endswith(sentences[k], litFigsDot)

\* C21 witness: a text with both abbreviations followed by a blank was cut
\* into four sentences, two of them holding an abbreviation and its blank.
C21_CutAroundAbbreviations ==
    /\ SplitReturned
    /\ Len(sentences) = 4
    /\ find(sentences[1], litFigDot \o << " " >>) > 0
    /\ find(sentences[2], litFigsDot \o << " " >>) > 0

\* s is empty or holds whitespace only
Blank(s) == strip(s) = << >>

\* C22: split_sentences returns a finite list without an empty or
\* whitespace-only sentence, and the list is empty exactly when the text is
\* empty or whitespace only.
C22_OutputShape ==
    SplitReturned =>
        /\ sentences \in Seq(Range(sentences))
        /\ \A k \in 1..Len(sentences) : ~Blank(sentences[k])
        /\ (sentences = << >>) <=> Blank(s_text)

\* C22 witness: the pattern cut off an empty piece, which was dropped, and
\* sentences were returned.
C22_EmptyPieceDropped ==
    /\ SplitReturned
    /\ sentences # << >>
    /\ \E k \in 1..Len(SentSplit(s_tmp)) : Blank(SentSplit(s_tmp)[k])

\* text is whitespace-normalised: " ".join(text.split()) is text
Normalised(s) == Normalise(s) = s

\* a placeholder token is written in the text itself
HoldsToken(s) == find(s, FIG_TOKEN) > 0 \/ find(s, FIGS_TOKEN) > 0

\* C27: the placeholder scheme is injective: for every whitespace-normalised
\* text, the returned sentences joined by single blanks are the text again.
C27_LosslessSplit ==
    (SplitReturned /\ Normalised(s_text))
    => join(<< " " >>, sentences) = s_text

\* the sentences a .. b of a list (1-based), with one blank between two
RECURSIVE Spaced(_, _, _)
Spaced(list, a, b) ==
    IF a > b THEN << >>
    ELSE IF a = b THEN list[a]
    ELSE list[a] \o << " " >> \o Spaced(list, a + 1, b)

\* C23: the caption_text of every record, FIGURE, accepted TABLE or
\* rejected TABLE, is the sentences at start_sent_idx .. end_sent_idx in
\* document order with single blanks between them.
C23_CaptionText ==
    \A r \in RecordsNow :
        /\ 0 <= r.start_sent_idx
        /\ r.start_sent_idx <= r.end_sent_idx
        /\ r.end_sent_idx < Len(sentences)
        /\ r.caption_text =
              Spaced(sentences, r.start_sent_idx + 1, r.end_sent_idx + 1)

\* C23 witness: the output holds a FIGURE record of three sentences, an
\* accepted TABLE record of more than one sentence and a rejected one.
C23_ThreeKindsWritten ==
    /\ json_out # None
    /\ \E r \in Range(json_out.val) :
          r.type = FIGURE /\ r.end_sent_idx = r.start_sent_idx + 2
    /\ \E r \in Range(json_out.val) :
          r.type = TABLE /\ Accepted(r) /\ r.end_sent_idx > r.start_sent_idx
    /\ \E r \in Range(json_out.val) : r.type = TABLE /\ ~Accepted(r)

\* the digits, with at most one letter after them, that follow the "Fig."
\* (in any letter case) and the whitespace of the match of FIG_PATTERN in s
FigIdOfMatch(s) ==
    NumGroupFrom(s, reStar(s, FIG_PATTERN_search(s) + Len(litFig), Whitespace))

\* C24: the id of every FIGURE record is the digits, with at most one
\* trailing letter, directly after the "Fig." that made its start sentence
\* match, in whatever letter case that "Fig." is written; it is never absent.
C24_FigureId ==
    \A r \in Range(fig_caps) :
        /\ r.id # None
        /\ r.id = FigIdOfMatch(At(sentences, r.start_sent_idx))

\* the Table pass is running: at the head of its loop, or in the call
InTablePass == pc \in {"tab", "await"}

\* how much of the pass is left: two per sentence from the scan index on,
\* one less while the call for the sentence at the index is out
PassLeft == 2 * (n - i_tab) + (IF pc = "tab" THEN 1 ELSE 0)

\* the calls that have not returned: every call that returned has a record
Outstanding == Len(q_calls) - Len(tab_caps)

\* at most one call is out, exactly while the pass waits, and there are at
\* most n calls
C25_CallsBounded ==
    InTablePass =>
        /\ Outstanding = (IF pc = "await" THEN 1 ELSE 0)
        /\ Len(q_calls) <= n
        /\ i_tab \in 0..n
        /\ pc = "await" => i_tab < n

\* every step of the pass leaves less of it, and the scan index never goes
\* back; a step that skips, accepts or rejects moves it forward
C25_ScanAdvances ==
    (InTablePass /\ InTablePass')
    => /\ PassLeft' < PassLeft
       /\ i_tab' >= i_tab
       /\ pc' = "tab" => i_tab' > i_tab

\* C25: with every oracle call resolving or failing, the Table pass over n
\* sentences ends, with at most one call outstanding at any time and at most
\* n calls, the scan index moving forward at every step.
C25_TablePassTerminates ==
    /\ []C25_CallsBounded
    /\ [][C25_ScanAdvances]_vars
    /\ (InTablePass ~> ~InTablePass)

\* C25 witness: the pass has ended after n = 3 calls, rejected, failed and
\* accepted.
C25_AsManyCallsAsSentences ==
    /\ pc = "done"
    /\ n = 3
    /\ Len(q_calls) = n
    /\ \E k \in 1..3 : Accepted(tab_caps[k])
    /\ \E k \in 1..3 : tab_caps[k].table_label = Some(ERROR)


\* the sentence at index k of the document, 0-based, and the empty string
\* where the document has no such sentence
SentenceOrEmpty(k) == IF k + 1 \in DOMAIN sentences THEN sentences[k + 1] ELSE << >>

\* the three sentences from index i on
TripleAt(i) ==
    << SentenceOrEmpty(i), SentenceOrEmpty(i + 1), SentenceOrEmpty(i + 2) >>

\* C26: the request of every oracle call at candidate index i is the triple
\* (sentence i, sentence i+1 or "", sentence i+2 or ""), whatever is claimed,
\* and the raw_window of the TABLE record made from the call, accepted or
\* rejected, is that triple.
C26_OracleWindow ==
    /\ \A k \in DOMAIN q_calls :
          /\ q_calls[k].idx \in 0..(n - 1)
          /\ q_calls[k].window = TripleAt(q_calls[k].idx)
    /\ \A k \in DOMAIN tab_caps :
          /\ k \in DOMAIN q_calls
          /\ tab_caps[k].start_sent_idx = q_calls[k].idx
          /\ tab_caps[k].raw_window = TripleAt(q_calls[k].idx)
    /\ \A r \in Range(all_records) :
          r.type = TABLE => r.raw_window = TripleAt(r.start_sent_idx)

\* C26 witness: the detector returned after a call whose second sentence
\* lies in the span of a FIGURE record, and after a call at the last
\* sentence, whose request is padded with two empty strings; one of the two
\* records is accepted and one rejected.
C26_ClaimedAndPadded ==
    /\ pc = "done"
    /\ n = 3
    /\ Len(tab_caps) = 2
    /\ \E f \in Range(fig_caps) :
          f.start_sent_idx <= 1 /\ 1 <= f.end_sent_idx
    /\ tab_caps[1].start_sent_idx = 0
    /\ tab_caps[1].raw_window[2] # << >>
    /\ tab_caps[1].raw_window[3] # << >>
    /\ tab_caps[2].start_sent_idx = 2
    /\ tab_caps[2].raw_window[2] = << >>
    /\ tab_caps[2].raw_window[3] = << >>
    /\ \E k \in 1..2 : Accepted(tab_caps[k])
    /\ \E k \in 1..2 : ~Accepted(tab_caps[k])


\* the text holds the whole word "Table" or "Tables", in any letter case:
\* the letters, with no word character directly before or after them
HasTableWord(s) ==
    \E w \in {<<"t", "a", "b", "l", "e">>, <<"t", "a", "b", "l", "e", "s">>} :
        \E p \in 1..Len(s) :
            /\ p + Len(w) - 1 <= Len(s)
            /\ lowerStr(SubSeq(s, p, p + Len(w) - 1)) = w
            /\ p = 1 \/ s[p - 1] \notin WordChars
            /\ p + Len(w) > Len(s) \/ s[p + Len(w)] \notin WordChars

\* the sentence indices the Table pass has dealt with: those before its scan
\* index, and all of them once it has returned
TableScanned ==
    IF pc \in {"tab", "await"} THEN 0..(i_tab - 1)
    ELSE IF pc \in {"collect", "done"} THEN 0..(n - 1)
    ELSE {}

\* index i lies in an accepted span that started at an earlier candidate
InsideEarlierSpan(i) ==
    \E r \in Range(tab_caps) :
        Accepted(r) /\ r.start_sent_idx < i /\ i <= r.end_sent_idx

\* the oracle calls with the sentence at i as S0
CallsAt(i) == {k \in DOMAIN q_calls : q_calls[k].idx = i}

\* the TABLE records that start at i
TableRecordsAt(i) == {k \in DOMAIN tab_caps : tab_caps[k].start_sent_idx = i}

\* C28: every sentence holding the whole word Table or Tables that the Table
\* pass has gone over lies strictly inside a span accepted from an earlier
\* candidate, or is S0 of exactly one oracle call and the start of exactly
\* one TABLE record; none is passed over silently.
C28_CandidateCompleteness ==
    \A i \in 0..(n - 1) :
        (i \in TableScanned /\ HasTableWord(sentences[i + 1])) =>
            \/ InsideEarlierSpan(i)
            \/ /\ Cardinality(CallsAt(i)) = 1
               /\ Cardinality(TableRecordsAt(i)) = 1

\* C28 witness: the pass has returned from three keyword sentences: the first
\* accepted together with the second, which got no call, the third rejected.
C28_InsideAndCalled ==
    /\ pc = "done"
    /\ n = 3
    /\ \A i \in 0..2 : HasTableWord(sentences[i + 1])
    /\ InsideEarlierSpan(1)
    /\ CallsAt(1) = {}
    /\ TableRecordsAt(1) = {}
    /\ Cardinality(CallsAt(2)) = 1
    /\ \E k \in TableRecordsAt(2) : ~Accepted(tab_caps[k])


\* sentence j is claimed in the Table pass
TableClaimed(j) == j \in DOMAIN used_tab /\ used_tab[j]

\* sentence j lies in the span of the TABLE record r
InSpan(j, r) == r.start_sent_idx <= j /\ j <= r.end_sent_idx

\* the oracle's answer stored in the record is TABLE_CAPTION with an end in
\* the window
CaptionAnswer(r) ==
    /\ r.table_label = Some(TABLE_CAPTION)
    /\ r.table_end_in_window = Some(0)
       \/ r.table_end_in_window = Some(1)
       \/ r.table_end_in_window = Some(2)

\* C29: in the Table pass the sentences of a record are claimed if and only
\* if the record has table_label TABLE_CAPTION and table_end_in_window in
\* {0,1,2}; every other TABLE record, one with TABLE_CAPTION and -1 included,
\* has start = end and a null id, and claims nothing: the claimed sentences
\* are exactly those of the spans of the accepted records.
C29_AcceptedIffClaimed ==
    /\ \A r \in Range(tab_caps) :
          /\ r.type = TABLE
          /\ CaptionAnswer(r) =>
                \A j \in r.start_sent_idx..r.end_sent_idx : TableClaimed(j)
          /\ ~CaptionAnswer(r) =>
                /\ r.start_sent_idx = r.end_sent_idx
                /\ r.id = None
                /\ ~TableClaimed(r.start_sent_idx)
    /\ \A j \in 0..(n - 1) :
          TableClaimed(j) <=>
              \E r \in Range(tab_caps) : CaptionAnswer(r) /\ InSpan(j, r)

\* C29 witness: the pass has returned with a record answered TABLE_CAPTION
\* and -1, whose sentence is not claimed, and an accepted record of two
\* claimed sentences.
C29_CaptionWithoutEnd ==
    /\ pc = "done"
    /\ \E r \in Range(tab_caps) :
          /\ r.table_label = Some(TABLE_CAPTION)
          /\ r.table_end_in_window = Some(-1)
          /\ ~TableClaimed(r.start_sent_idx)
    /\ \E r \in Range(tab_caps) :
          /\ CaptionAnswer(r)
          /\ r.end_sent_idx = r.start_sent_idx + 1
          /\ TableClaimed(r.end_sent_idx)


\* each record of the list starts after the end of the record before it
StartsAfterPrevious(caps) ==
    \A k \in 2..Len(caps) :
        caps[k].start_sent_idx > caps[k - 1].end_sent_idx

\* the records of one type, in the order of the list
RECURSIVE OfType(_, _)
OfType(recs, type) ==
    IF recs = << >> THEN << >>
    ELSE (IF Head(recs).type = type THEN << Head(recs) >> ELSE << >>)
         \o OfType(Tail(recs), type)

\* in every state the records of each detector, and those of each type in
\* the output, are in strictly increasing, non-touching order, and the
\* sentence at the scan index of the Table pass is not claimed
C30_Ordered ==
    /\ StartsAfterPrevious(fig_caps)
    /\ StartsAfterPrevious(tab_caps)
    /\ StartsAfterPrevious(OfType(all_records, FIGURE))
    /\ StartsAfterPrevious(OfType(all_records, TABLE))
    /\ (pc = "tab" /\ i_tab < n) => ~used_tab[i_tab]

\* a detector that appends a record had not claimed any sentence of its span
C30_NewSpanUnclaimed ==
    /\ Len(fig_caps') = Len(fig_caps) + 1 =>
          LET r == fig_caps'[Len(fig_caps')]
          IN  \A j \in r.start_sent_idx..r.end_sent_idx : ~used_fig[j]
    /\ Len(tab_caps') = Len(tab_caps) + 1 =>
          LET r == tab_caps'[Len(tab_caps')]
          IN  \A j \in r.start_sent_idx..r.end_sent_idx : ~used_tab[j]

\* C30: among the FIGURE records of a document, and among its TABLE records,
\* each record starts strictly after the end of the record emitted before
\* it; a detector never puts a sentence it has claimed itself into a new
\* span, and the claimed test at the scan index of the Table pass is never
\* true.
C30_SameTypeNonOverlap == []C30_Ordered /\ [][C30_NewSpanUnclaimed]_vars

\* C30 witness: the output of a five-sentence document holds two FIGURE
\* records and two TABLE records, the first of each with a span of more than
\* one sentence.
C30_TwoSpansOfEach ==
    /\ pc = "done"
    /\ Len(OfType(all_records, FIGURE)) = 2
    /\ Len(OfType(all_records, TABLE)) = 2
    /\ fig_caps[1].end_sent_idx > fig_caps[1].start_sent_idx
    /\ tab_caps[1].end_sent_idx > tab_caps[1].start_sent_idx
    /\ tab_caps[2].start_sent_idx = tab_caps[1].end_sent_idx + 1

====
